---------------------------- MODULE Spec2Model ----------------------------
(***************************************************************************)
(* A model of libliftoff (raspberrypi-ui): the plane allocation engine.    *)
(*                                                                         *)
(* The engine state is the device (its ordered plane list and counters),   *)
(* the outputs and the layers.  The kernel side (the hardware planes, the  *)
(* framebuffer table and the answers of atomic test commits) is the        *)
(* environment, held in hw, fbs and drv.  Objects are named by ids; 0 is   *)
(* the NULL pointer.  Errors are named by their errno name, "ok" is 0.     *)
(***************************************************************************)
EXTENDS Integers, Sequences, FiniteSets, TLC

VARIABLES
  hw,       \* kernel: plane id -> what drmModeGetPlane / properties report
  fbs,      \* kernel: framebuffer id -> <<>> (no such fb) or <<descriptor>>
  drv,      \* kernel: the driver's rule for atomic test commits
  dev,      \* struct liftoff_rpi_device: planes (ordered), the two counters
  outputs,  \* output id -> struct liftoff_rpi_output
  layers,   \* layer id -> struct liftoff_rpi_layer (live layers only)
  req,      \* the caller's atomic request as the last apply left it
  res       \* what the last API call returned (and, for apply, which path)

vars == <<hw, fbs, drv, dev, outputs, layers, req, res>>

--------------------------------------------------------------------------
(* Bounds of the model *)

MaxPlanes == 3    \* hardware planes of a device
MaxLayers == 3    \* layers alive at once
LifePlanes == 2   \* hardware planes of the device of Spec
LifeLayers == 2   \* layers alive at once in Spec
MaxApply == 2     \* calls of liftoff_rpi_output_apply in one run
MaxReq == 64      \* settings an atomic request can hold
TwoApply == 3     \* calls of liftoff_rpi_output_apply in one run on two outputs

(* Program constants *)

LIFTOFF_RPI_PRIORITY_PERIOD == 60
INT_MAX == 2147483647
INT_MIN == -2147483647 - 1
ALPHA_OPAQUE == 65535

NULL == 0
OK == "ok"

PlaneIds == 1..MaxPlanes
LayerIds == 1..MaxLayers

Max(a, b) == IF a >= b THEN a ELSE b
Min(a, b) == IF a <= b THEN a ELSE b

\* The numbers of the model are below 2^31 (the model checker's integers),
\* so a mask has no bit above bit 30 and a cast between uint64_t, int and
\* int64_t keeps the value.
Pow2(n) == 2 ^ n

\* bit n of an unsigned mask
BitSet(mask, n) == n <= 30 /\ (mask \div Pow2(n)) % 2 = 1

Range(s) == {s[i] : i \in 1..Len(s)}

\* a local variable: v is computed once and F reads it under its name
With(v, F(_)) == F(v)

--------------------------------------------------------------------------
(* Layers: src/layer.c *)

ZeroFbInfo ==
  [fb_id |-> 0, width |-> 0, height |-> 0, pixel_format |-> 0,
   modifier |-> 0, flags |-> 0]

\* the position of property prop in layer.props, 0 when it is not set
layer_property_index(layer, prop) ==
  IF \E i \in 1..Len(layer.props) : layer.props[i].index = prop
  THEN CHOOSE i \in 1..Len(layer.props) :
         /\ layer.props[i].index = prop
         /\ \A j \in 1..(i - 1) : layer.props[j].index # prop
  ELSE 0

layer_property_get(layer, prop) ==
  With(layer_property_index(layer, prop),
       LAMBDA i : IF i = 0 THEN <<>> ELSE <<layer.props[i]>>)

layer_has_property(layer, prop) == layer_property_index(layer, prop) # 0

layer_property_value(layer, prop) ==
  layer.props[layer_property_index(layer, prop)].value

layer_fb_get(layer) ==
  With(layer_property_get(layer, "FB_ID"),
       LAMBDA fb : fb # <<>> /\ fb[1].value # 0)

layer_visible_get(layer) ==
  With(layer_property_get(layer, "ALPHA"),
       LAMBDA prop :
         IF prop # <<>> /\ prop[1].value = 0 THEN FALSE
         ELSE IF layer.force_comp THEN TRUE
         ELSE layer_fb_get(layer))

layer_rect_get(layer) ==
  [p \in {"CRTC_X", "CRTC_Y", "CRTC_W", "CRTC_H"} |->
     With(layer_property_get(layer, p),
          LAMBDA prop : IF prop # <<>> THEN prop[1].value ELSE 0)]

layer_intersects(a, b) ==
  IF ~layer_visible_get(a) \/ ~layer_visible_get(b) THEN FALSE
  ELSE With(<<layer_rect_get(a), layer_rect_get(b)>>,
            LAMBDA r :
              /\ r[1].CRTC_X < r[2].CRTC_X + r[2].CRTC_W
              /\ r[1].CRTC_Y < r[2].CRTC_Y + r[2].CRTC_H
              /\ r[1].CRTC_X + r[1].CRTC_W > r[2].CRTC_X
              /\ r[1].CRTC_Y + r[1].CRTC_H > r[2].CRTC_Y)

\* a cleaning that resets the flag and leaves the snapshots as they are
layer_clean_flag(layer) == [layer EXCEPT !.changed = FALSE]

layer_clean(layer) ==
  [layer EXCEPT
     !.changed = FALSE,
     !.prev_fb_info = layer.fb_info,
     !.props = [i \in 1..Len(layer.props) |->
                  [layer.props[i] EXCEPT !.prev_value = layer.props[i].value]]]

\* the mutant of layer_priority_update: every apply counts as a new frame
layer_priority_update_always(layer, current) ==
  IF current
  THEN [layer EXCEPT !.current_priority = layer.pending_priority + 1,
                     !.pending_priority = 0]
  ELSE [layer EXCEPT !.pending_priority = layer.pending_priority + 1]

layer_priority_update(layer, current) ==
  With(With(layer_property_get(layer, "FB_ID"),
            LAMBDA fb : IF fb # <<>> /\ fb[1].prev_value # fb[1].value
                        THEN layer.pending_priority + 1
                        ELSE layer.pending_priority),
       LAMBDA pending :
         IF current
         THEN [layer EXCEPT !.current_priority = pending, !.pending_priority = 0]
         ELSE [layer EXCEPT !.pending_priority = pending])

\* candidate_planes is an array of planes_cap plane ids, 0 marking a free slot
layer_candidate_plane_add(layer, plane) ==
  LET cp == layer.candidate_planes
      free == {i \in 1..Len(cp) : cp[i] = 0}
  IN  IF \E i \in 1..Len(cp) : cp[i] = plane.id THEN layer
      ELSE IF free = {} THEN layer
      ELSE LET empty == CHOOSE i \in free : \A j \in free : i <= j
           IN  [layer EXCEPT !.candidate_planes[empty] = plane.id]

\* a reset that leaves the memo as it is
layer_candidate_planes_keep(layer) == layer

layer_candidate_planes_reset(layer) ==
  [layer EXCEPT !.candidate_planes = [i \in 1..Len(layer.candidate_planes) |-> 0]]

layer_cache_fb_info(layer, kfbs) ==
  With(layer_property_get(layer, "FB_ID"),
       LAMBDA fb :
         IF fb = <<>> \/ fb[1].value = 0
         THEN [layer EXCEPT !.fb_info = ZeroFbInfo]
         ELSE IF layer.fb_info.fb_id = fb[1].value THEN layer
         \* drmModeGetFB2 fails: EINVAL returns 0, any other errno is returned
         \* and dropped by the only caller; fb_info is left as it was
         ELSE IF fb[1].value \notin DOMAIN kfbs \/ kfbs[fb[1].value] = <<>>
         THEN layer
         ELSE [layer EXCEPT !.fb_info =
                 [kfbs[fb[1].value][1] EXCEPT !.fb_id = fb[1].value]])

--------------------------------------------------------------------------
(* The atomic request: libdrm's drmModeAtomicReq.  items are the property  *)
(* settings in the order they were added; the cursor is their number.  cap *)
(* is the number of items the request can grow to before realloc fails.    *)

drmModeAtomicGetCursor(r) == Len(r.items)

\* a cursor that is never set back
drmModeAtomicSetCursor_keep(r, c) == r

\* a restore that leaves the first setting after the cursor in the request
drmModeAtomicSetCursor_short(r, c) ==
  IF c + 1 < Len(r.items) THEN [r EXCEPT !.items = SubSeq(r.items, 1, c + 1)] ELSE r

drmModeAtomicSetCursor(r, c) ==
  IF c < Len(r.items) THEN [r EXCEPT !.items = SubSeq(r.items, 1, c)] ELSE r

drmModeAtomicAddProperty(r, obj, prop, value) ==
  IF Len(r.items) >= r.cap
  THEN [ret |-> "ENOMEM", req |-> r]
  ELSE [ret |-> OK,
        req |-> [r EXCEPT !.items =
                   Append(r.items, [obj |-> obj, prop |-> prop, value |-> value])]]

--------------------------------------------------------------------------
(* Planes: src/plane.c *)

plane_zpos_guess(d, id, type) ==
  CASE type = "PRIMARY" -> 0
    [] type = "CURSOR" -> 2
    [] type = "OVERLAY" ->
         IF d.planes = <<>> THEN 0
         ELSE IF id < d.planes[1].id THEN -1 ELSE 1
    [] OTHER -> 0

plane_prop_range_check(dprop, value) ==
  IF value < dprop.values[1] \/ value > dprop.values[2] THEN "EINVAL" ELSE OK

plane_prop_signed_range_check(dprop, value) ==
  IF value < dprop.values[1] \/ value > dprop.values[2] THEN "EINVAL" ELSE OK

plane_prop_enum_check(dprop, value) ==
  IF \E i \in 1..Len(dprop.values) : dprop.values[i] = value THEN OK ELSE "EINVAL"

\* mask |= 1 << enums[i].value; (value & ~mask) != 0 is a set bit outside it
plane_prop_bitmask_check(dprop, value) ==
  IF \E n \in 0..30 : BitSet(value, n) /\ n \notin Range(dprop.values)
  THEN "EINVAL" ELSE OK

\* plane.props has one slot per kernel property, filled only where the
\* name is known (index "" otherwise); the lookup reads the first props_len
\* slots
plane_property_get(plane, prop) ==
  LET hits == {i \in 1..Min(plane.props_len, Len(plane.props)) :
                 plane.props[i].index = prop}
  IN  IF hits = {} THEN <<>>
      ELSE <<plane.props[CHOOSE i \in hits : \A j \in hits : i <= j]>>

plane_property_set(plane, r, prop, value) ==
  drmModeAtomicAddProperty(r, plane.id, prop, value)

plane_prop_set(plane, r, index, value) ==
  With(plane_property_get(plane, index),
       LAMBDA prop :
         IF prop = <<>> THEN [ret |-> "EINVAL", req |-> r]
         ELSE IF prop[1].immutable THEN [ret |-> "EINVAL", req |-> r]
         ELSE With(CASE prop[1].kind = "RANGE" ->
                          plane_prop_range_check(prop[1], value)
                     [] prop[1].kind = "ENUM" ->
                          plane_prop_enum_check(prop[1], value)
                     [] prop[1].kind = "BITMASK" ->
                          plane_prop_bitmask_check(prop[1], value)
                     [] prop[1].kind = "SIGNED_RANGE" ->
                          plane_prop_signed_range_check(prop[1], value)
                     [] OTHER -> OK,
                   LAMBDA ret :
                     IF ret # OK THEN [ret |-> ret, req |-> r]
                     ELSE plane_property_set(plane, r, index, value)))

\* the loop that tolerates the absence of every property
RECURSIVE plane_apply_props_any(_, _, _, _, _)
plane_apply_props_any(plane, layer, r, i, c) ==
  IF i > Len(layer.props) THEN [ret |-> OK, req |-> r]
  ELSE IF layer.props[i].index = "ZPOS" \/ plane_property_get(plane, layer.props[i].index) = <<>>
  THEN plane_apply_props_any(plane, layer, r, i + 1, c)
  ELSE With(plane_property_set(plane, r, layer.props[i].index, layer.props[i].value),
            LAMBDA s :
              IF s.ret # OK
              THEN [ret |-> s.ret, req |-> drmModeAtomicSetCursor(r, c)]
              ELSE plane_apply_props_any(plane, layer, s.req, i + 1, c))

\* the loop of plane_apply over layer->props, from property i on; c is the
\* cursor plane_apply took on entry
RECURSIVE plane_apply_props(_, _, _, _, _)
plane_apply_props(plane, layer, r, i, c) ==
  IF i > Len(layer.props) THEN [ret |-> OK, req |-> r]
  ELSE
    LET lprop == layer.props[i]
    IN  IF lprop.index = "ZPOS" THEN plane_apply_props(plane, layer, r, i + 1, c)
        ELSE IF plane_property_get(plane, lprop.index) = <<>>
        THEN IF \/ lprop.index = "ALPHA" /\ lprop.value = ALPHA_OPAQUE
                \/ lprop.index = "ROTATION" /\ lprop.value = 1
                \/ lprop.index = "SCALING_FILTER" /\ lprop.value = 0
                \/ lprop.index = "PIXEL_BLEND_MODE" /\ lprop.value = 0
                \/ lprop.index = "FB_DAMAGE_CLIPS"
             THEN plane_apply_props(plane, layer, r, i + 1, c)
             ELSE [ret |-> "EINVAL", req |-> drmModeAtomicSetCursor(r, c)]
        ELSE With(plane_property_set(plane, r, lprop.index, lprop.value),
                  LAMBDA s :
                    IF s.ret # OK
                    THEN [ret |-> s.ret, req |-> drmModeAtomicSetCursor(r, c)]
                    ELSE plane_apply_props(plane, layer, s.req, i + 1, c))

\* layer is <<>> for a NULL layer, <<l>> otherwise; crtc_id is
\* layer->output->crtc_id
plane_apply(plane, layer, crtc_id, r) ==
  LET c == drmModeAtomicGetCursor(r)
  IN  IF layer = <<>>
      THEN With(plane_prop_set(plane, r, "FB_ID", 0),
                LAMBDA s : IF s.ret # OK THEN s
                           ELSE plane_prop_set(plane, s.req, "CRTC_ID", 0))
      ELSE With(plane_prop_set(plane, r, "CRTC_ID", crtc_id),
                LAMBDA s : IF s.ret # OK THEN s
                           ELSE plane_apply_props(plane, layer[1], s.req, 1, c))

\* the IN_FORMATS blob: formats (the format list) and modifiers, each with
\* its modifier, the offset of its 64-wide window and the window's mask
\* every framebuffer passes the format check
plane_check_layer_fb_any(plane, layer) == TRUE

plane_check_layer_fb(plane, layer) ==
  IF \/ layer.fb_info.fb_id = 0
     \/ ~BitSet(layer.fb_info.flags, 1)
     \/ plane.in_formats_blob = <<>>
  THEN TRUE
  ELSE
    With(plane.in_formats_blob[1], LAMBDA set :
    With({i \in 1..Len(set.formats) :
            set.formats[i] = layer.fb_info.pixel_format}, LAMBDA fhits :
    With({i \in 1..Len(set.modifiers) :
            set.modifiers[i].modifier = layer.fb_info.modifier}, LAMBDA mhits :
      IF fhits = {} THEN FALSE
      ELSE IF mhits = {} THEN FALSE
      ELSE
        With((CHOOSE i \in fhits : \A j \in fhits : i <= j) - 1, LAMBDA format_index :
        With(set.modifiers[CHOOSE i \in mhits : \A j \in mhits : i <= j], LAMBDA m :
          IF format_index < m.offset \/ format_index >= m.offset + 64
          THEN FALSE
          ELSE BitSet(m.formats, format_index - m.offset))))))

--------------------------------------------------------------------------
(* The kernel's answer to an atomic commit.  The driver judges the plane   *)
(* configuration the request describes: which framebuffer each plane scans *)
(* out on which CRTC.  A plane the request does not mention keeps what the *)
(* kernel has, which is the plane's binding (planes of other outputs).     *)

\* the value of the last setting of obj's property prop, <<>> when not set
ReqLast(r, obj, prop) ==
  LET hits == {i \in 1..Len(r.items) :
                 r.items[i].obj = obj /\ r.items[i].prop = prop}
  IN  IF hits = {} THEN <<>>
      ELSE <<r.items[CHOOSE i \in hits : \A j \in hits : j <= i].value>>

Disabled == [crtc |-> 0, fb |-> 0]

KernelPlaneState(plane, outs, L) ==
  IF plane.layer # NULL /\ plane.layer \in DOMAIN L /\ layer_fb_get(L[plane.layer])
  THEN [crtc |-> outs[L[plane.layer].output].crtc_id,
        fb |-> layer_property_value(L[plane.layer], "FB_ID")]
  ELSE Disabled

PlaneConfig(r, planes, outs, L) ==
  [i \in 1..Len(planes) |->
     With(ReqLast(r, planes[i].id, "FB_ID"), LAMBDA fb :
     With(ReqLast(r, planes[i].id, "CRTC_ID"), LAMBDA crtc :
       IF fb = <<>> /\ crtc = <<>> THEN KernelPlaneState(planes[i], outs, L)
       ELSE IF fb # <<>> /\ crtc # <<>> /\ fb[1] # 0 /\ crtc[1] # 0
       THEN [crtc |-> crtc[1], fb |-> fb[1]]
       ELSE Disabled))]

\* d.fatal and d.bad are sets of <<plane id, fb id>>, d.cap the number of
\* planes the hardware can scan out at once, d.need_primary the CRTCs whose
\* primary plane the request may not leave off, d.dep the pairs <<p, q>> of
\* plane ids where p scans out only while q does, d.code the errno of a
\* rejection
drmModeAtomicCommit(d, planes, cfg) ==
  LET on == {i \in 1..Len(planes) : cfg[i].fb # 0}
  IN  IF \E i \in on : <<planes[i].id, cfg[i].fb>> \in d.fatal THEN "EACCES"
      ELSE IF \/ \E i \in on : <<planes[i].id, cfg[i].fb>> \in d.bad
              \/ Cardinality(on) > d.cap
              \/ \E i \in on : \E pq \in d.dep :
                   /\ planes[i].id = pq[1]
                   /\ ~\E j \in on : planes[j].id = pq[2]
              \/ \E c \in d.need_primary :
                   /\ \E i \in 1..Len(planes) : planes[i].type = "PRIMARY"
                   /\ ~\E i \in on : planes[i].type = "PRIMARY" /\ cfg[i].crtc = c
      THEN d.code
      ELSE OK

\* the mutant of test_commit_retry: the first answer is returned
test_commit_once(answers, i) == answers[i]

\* the do-while of device_test_commit: the kernel answers d.intr (EINTR and
\* EAGAIN) before it gives the answer to the request
RECURSIVE test_commit_retry(_, _)
test_commit_retry(answers, i) ==
  IF answers[i] \in {"EINTR", "EAGAIN"} /\ i < Len(answers)
  THEN test_commit_retry(answers, i + 1)
  ELSE answers[i]

device_test_commit(d, counter, r, planes, outs, L) ==
  [test_commit_counter |-> counter + 1,
   ret |-> test_commit_retry(
             Append(d.intr, drmModeAtomicCommit(d, planes, PlaneConfig(r, planes, outs, L))),
             1)]

--------------------------------------------------------------------------
(* The allocation: src/alloc.c.                                            *)
(* A step is struct alloc_step: pindex counts the planes already decided,  *)
(* alloc[i] is the layer id given to the i-th plane (0: none).  The search *)
(* context C holds what a search reads and never writes: the output, the   *)
(* planes with the output's bindings cleared, the outputs, the driver and  *)
(* the constant fields of struct alloc_result.  R holds what it writes:    *)
(* best, best_score, the request, the layers (their candidate planes), the *)
(* device's test_commit_counter and the return value.                      *)

plane_step_init_next(C, L, prev, layer) ==
  With(C.planes[prev.pindex + 1], LAMBDA plane :
  With(layer # NULL /\ layer = C.output.comp_layer, LAMBDA is_comp :
  With(IF layer # NULL THEN layer_property_get(L[layer], "ZPOS") ELSE <<>>, LAMBDA zprop :
      [pindex |-> prev.pindex + 1,
       alloc |-> Append(prev.alloc, layer),
       composited |-> IF is_comp THEN TRUE ELSE prev.composited,
       score |-> IF layer # NULL /\ ~is_comp THEN prev.score + 1 ELSE prev.score,
       last_layer_zpos |->
         IF zprop # <<>> /\ plane.type # "PRIMARY"
         THEN zprop[1].value ELSE prev.last_layer_zpos,
       primary_layer_zpos |->
         IF zprop # <<>> /\ plane.type = "PRIMARY"
         THEN zprop[1].value ELSE prev.primary_layer_zpos,
       primary_plane_zpos |->
         IF zprop # <<>> /\ plane.type = "PRIMARY"
         THEN plane.zpos ELSE prev.primary_plane_zpos])))

(* ------------------------------------------------------------------ *)
(* Size of the search                                                  *)
(* ------------------------------------------------------------------ *)

\* the mutant of layer_allocated_get: no layer counts as taken
layer_allocated_get_never(step, layer) == FALSE

layer_allocated_get(step, layer) ==
  \E i \in 1..step.pindex : step.alloc[i] = layer

\* the test without the layers left to composition
composited_layer_over_none(C, L, step, layer) == FALSE

composited_layer_over_get(C, L, step, layer) ==
  With(layer_property_get(L[layer], "ZPOS"), LAMBDA zprop :
    IF zprop = <<>> THEN FALSE
    ELSE \E olayer \in Range(C.output.layers) :
           With(layer_property_get(L[olayer], "ZPOS"), LAMBDA ozprop :
             /\ ~layer_allocated_get(step, olayer)
             /\ ozprop # <<>>
             /\ layer_intersects(L[layer], L[olayer])
             /\ ozprop[1].value > zprop[1].value))

allocated_layer_over_get(C, L, step, layer) ==
  With(layer_property_get(L[layer], "ZPOS"), LAMBDA zprop :
    IF zprop = <<>> THEN FALSE
    ELSE \E i \in 1..Min(step.pindex, Len(C.planes)) :
           /\ C.planes[i].type # "PRIMARY"
           /\ step.alloc[i] # NULL
           /\ With(layer_property_get(L[step.alloc[i]], "ZPOS"), LAMBDA ozprop :
                 /\ ozprop # <<>>
                 /\ zprop[1].value > ozprop[1].value
                 /\ layer_intersects(L[layer], L[step.alloc[i]])))

\* the test that looks for an earlier plane at or above the candidate plane
allocated_plane_under_get_above(C, L, step, layer) ==
  \E i \in 1..Min(step.pindex, Len(C.planes)) :
    /\ C.planes[i].type # "PRIMARY"
    /\ step.alloc[i] # NULL
    /\ C.planes[i].zpos >= C.planes[step.pindex + 1].zpos
    /\ layer_intersects(L[layer], L[step.alloc[i]])

allocated_plane_under_get(C, L, step, layer) ==
  \E i \in 1..Min(step.pindex, Len(C.planes)) :
    /\ C.planes[i].type # "PRIMARY"
    /\ step.alloc[i] # NULL
    /\ C.planes[step.pindex + 1].zpos >= C.planes[i].zpos
    /\ layer_intersects(L[layer], L[step.alloc[i]])

\* the compatibility without the composition layer's rule
layer_plane_compatible_get_nocomp(C, L, step, layer, plane) ==
  ~layer_allocated_get(step, layer)

\* the compatibility without the rule of the layer on the primary plane
layer_plane_compatible_get_noprimary(C, L, step, layer, plane) ==
  With(layer_property_get(L[layer], "ZPOS"), LAMBDA zprop :
      IF layer_allocated_get(step, layer) THEN FALSE
      ELSE IF /\ zprop # <<>>
              /\ \/ /\ zprop[1].value > step.last_layer_zpos
                    /\ allocated_layer_over_get(C, L, step, layer)
                 \/ /\ zprop[1].value < step.last_layer_zpos
                    /\ allocated_plane_under_get(C, L, step, layer)
      THEN FALSE
      ELSE IF plane.type # "PRIMARY" /\ composited_layer_over_get(C, L, step, layer)
      THEN FALSE
      ELSE IF plane.type # "PRIMARY" /\ layer = C.output.comp_layer
      THEN FALSE
      ELSE TRUE)

layer_plane_compatible_get(C, L, step, layer, plane) ==
  With(layer_property_get(L[layer], "ZPOS"), LAMBDA zprop :
      IF layer_allocated_get(step, layer) THEN FALSE
      ELSE IF /\ zprop # <<>>
              /\ \/ /\ zprop[1].value > step.last_layer_zpos
                    /\ allocated_layer_over_get(C, L, step, layer)
                 \/ /\ zprop[1].value < step.last_layer_zpos
                    /\ allocated_plane_under_get(C, L, step, layer)
                 \/ /\ plane.type # "PRIMARY"
                    /\ zprop[1].value < step.primary_layer_zpos
                    /\ plane.zpos > step.primary_plane_zpos
      THEN FALSE
      ELSE IF plane.type # "PRIMARY" /\ composited_layer_over_get(C, L, step, layer)
      THEN FALSE
      ELSE IF plane.type # "PRIMARY" /\ layer = C.output.comp_layer
      THEN FALSE
      ELSE TRUE)

\* the validity without the refusal of an unnecessary composition
alloc_valid_get_waste(C, step) ==
  ~(C.has_comp_layer /\ ~step.composited /\ step.score # C.non_comp_layers_len)

\* every terminal state taken for valid
alloc_valid_get_any(C, step) == TRUE

alloc_valid_get(C, step) ==
  IF /\ C.has_comp_layer
     /\ ~step.composited
     /\ step.score # C.non_comp_layers_len
  THEN FALSE
  ELSE IF step.composited /\ step.score = C.non_comp_layers_len
  THEN FALSE
  ELSE TRUE

alloc_prune_get_early(best_score, step, planes_len) ==
  best_score + 1 >= step.score + (planes_len - step.pindex)

\* a pruning test that forgets the planes still to come
alloc_prune_get_norest(best_score, step, planes_len) ==
  best_score >= step.score

\* the pruning test of output_layers_choose
alloc_prune_get(best_score, step, planes_len) ==
  best_score >= step.score + (planes_len - step.pindex)

\* a plane taken for one of every CRTC
plane_crtc_compatible_any(plane, output) == TRUE

\* the CRTC test of output_layers_choose
plane_crtc_compatible_get(plane, output) ==
  BitSet(plane.possible_crtcs, output.crtc_index)

RECURSIVE output_layers_choose(_, _, _)
RECURSIVE output_layers_loop(_, _, _, _, _)

\* the loop of output_layers_choose over the output's layers, from the i-th
\* on, for the plane of this step; cur is the cursor taken by the node
output_layers_loop(C, R, step, cur, i) ==
  IF i > Len(C.output.layers) THEN R
  ELSE
    With(C.planes[step.pindex + 1], LAMBDA plane :
    With(C.output.layers[i], LAMBDA lid :
    With(R.layers[lid], LAMBDA layer :
      IF layer.plane # NULL THEN output_layers_loop(C, R, step, cur, i + 1)
      ELSE IF ~layer_visible_get(layer)
      THEN output_layers_loop(C, R, step, cur, i + 1)
      ELSE IF ~layer_plane_compatible_get(C, R.layers, step, lid, plane)
      THEN output_layers_loop(C, R, step, cur, i + 1)
      ELSE
        With(plane_apply(plane, <<layer>>, C.output.crtc_id, R.req), LAMBDA pa :
          IF pa.ret = "EINVAL"
          THEN output_layers_loop(C, [R EXCEPT !.req = pa.req], step, cur, i + 1)
          ELSE IF pa.ret # OK THEN [R EXCEPT !.req = pa.req, !.ret = pa.ret]
          ELSE
            With([R EXCEPT !.req = pa.req,
                           !.layers[lid] = layer_candidate_plane_add(layer, plane)],
                 LAMBDA Ra :
              IF layer.force_comp \/ ~plane_check_layer_fb(plane, layer)
              THEN output_layers_loop(
                     C, [Ra EXCEPT !.req = drmModeAtomicSetCursor(Ra.req, cur)],
                     step, cur, i + 1)
              ELSE
                With(device_test_commit(C.drv, Ra.test_commit_counter, Ra.req,
                                        C.planes, C.outputs, Ra.layers), LAMBDA tc :
                With([Ra EXCEPT !.test_commit_counter = tc.test_commit_counter],
                     LAMBDA Rt :
                  IF tc.ret = OK
                  THEN With(output_layers_choose(
                              C, Rt, plane_step_init_next(C, Rt.layers, step, lid)),
                            LAMBDA Rn :
                              IF Rn.ret # OK THEN Rn
                              ELSE output_layers_loop(
                                     C, [Rn EXCEPT !.req = drmModeAtomicSetCursor(Rn.req, cur)],
                                     step, cur, i + 1))
                  ELSE IF tc.ret \notin {"EINVAL", "ERANGE", "ENOSPC"}
                  THEN [Rt EXCEPT !.ret = tc.ret]
                  ELSE output_layers_loop(
                         C, [Rt EXCEPT !.req = drmModeAtomicSetCursor(Rt.req, cur)],
                         step, cur, i + 1))))))))

output_layers_choose(C, R, step) ==
  IF step.pindex = C.planes_len
  THEN IF step.score > R.best_score /\ alloc_valid_get(C, step)
       THEN [R EXCEPT !.best_score = step.score, !.best = step.alloc]
       ELSE R
  ELSE
    With(C.planes[step.pindex + 1], LAMBDA plane :
      IF alloc_prune_get(R.best_score, step, C.planes_len) THEN R
      ELSE
        With(drmModeAtomicGetCursor(R.req), LAMBDA cur :
        With(IF plane.layer # NULL THEN R
             ELSE IF ~plane_crtc_compatible_get(plane, C.output) THEN R
             ELSE output_layers_loop(C, R, step, cur, 1), LAMBDA Rl :
          IF Rl.ret # OK THEN Rl
          ELSE
            With(output_layers_choose(
                   C, Rl, plane_step_init_next(C, Rl.layers, step, NULL)), LAMBDA Rs :
              IF Rs.ret # OK THEN Rs
              ELSE [Rs EXCEPT !.req = drmModeAtomicSetCursor(Rs.req, cur)]))))

RECURSIVE output_layers_choose_log(_, _, _)
RECURSIVE output_layers_loop_log(_, _, _, _, _)

\* the search with a record of what it does in R.log: every call of
\* output_layers_choose (enter, with the plane index of the step), every
\* staging by plane_apply that succeeded (stage), every test commit with
\* its answer (test) and every arrival at the terminal step (leaf); the
\* loop over the output's layers, from the i-th on
output_layers_loop_log(C, R, step, cur, i) ==
  IF i > Len(C.output.layers) THEN R
  ELSE
    With(C.planes[step.pindex + 1], LAMBDA plane :
    With(C.output.layers[i], LAMBDA lid :
    With(R.layers[lid], LAMBDA layer :
      IF layer.plane # NULL THEN output_layers_loop_log(C, R, step, cur, i + 1)
      ELSE IF ~layer_visible_get(layer)
      THEN output_layers_loop_log(C, R, step, cur, i + 1)
      ELSE IF ~layer_plane_compatible_get(C, R.layers, step, lid, plane)
      THEN output_layers_loop_log(C, R, step, cur, i + 1)
      ELSE
        With(plane_apply(plane, <<layer>>, C.output.crtc_id, R.req), LAMBDA pa :
          IF pa.ret = "EINVAL"
          THEN output_layers_loop_log(C, [R EXCEPT !.req = pa.req], step, cur, i + 1)
          ELSE IF pa.ret # OK THEN [R EXCEPT !.req = pa.req, !.ret = pa.ret]
          ELSE
            With([R EXCEPT !.req = pa.req,
                           !.layers[lid] = layer_candidate_plane_add(layer, plane),
                           !.log = Append(@, <<"stage", lid, plane.id>>)],
                 LAMBDA Ra :
              IF layer.force_comp \/ ~plane_check_layer_fb(plane, layer)
              THEN output_layers_loop_log(
                     C, [Ra EXCEPT !.req = drmModeAtomicSetCursor(Ra.req, cur)],
                     step, cur, i + 1)
              ELSE
                With(device_test_commit(C.drv, Ra.test_commit_counter, Ra.req,
                                        C.planes, C.outputs, Ra.layers), LAMBDA tc :
                With([Ra EXCEPT !.test_commit_counter = tc.test_commit_counter,
                                !.log = Append(@, <<"test", lid, plane.id, tc.ret>>)],
                     LAMBDA Rt :
                  IF tc.ret = OK
                  THEN With(output_layers_choose_log(
                              C, Rt, plane_step_init_next(C, Rt.layers, step, lid)),
                            LAMBDA Rn :
                              IF Rn.ret # OK THEN Rn
                              ELSE output_layers_loop_log(
                                     C, [Rn EXCEPT !.req = drmModeAtomicSetCursor(Rn.req, cur)],
                                     step, cur, i + 1))
                  ELSE IF tc.ret \notin {"EINVAL", "ERANGE", "ENOSPC"}
                  THEN [Rt EXCEPT !.ret = tc.ret]
                  ELSE output_layers_loop_log(
                         C, [Rt EXCEPT !.req = drmModeAtomicSetCursor(Rt.req, cur)],
                         step, cur, i + 1))))))))

output_layers_choose_log(C, R0, step) ==
  With([R0 EXCEPT !.log = Append(@, <<"enter", step.pindex>>)], LAMBDA R :
  IF step.pindex = C.planes_len
  THEN With([R EXCEPT !.log = Append(@, <<"leaf", step.score, step.alloc,
                                            alloc_valid_get(C, step)>>)], LAMBDA Rf :
         IF step.score > R.best_score /\ alloc_valid_get(C, step)
         THEN [Rf EXCEPT !.best_score = step.score, !.best = step.alloc]
         ELSE Rf)
  ELSE
    With(C.planes[step.pindex + 1], LAMBDA plane :
      IF alloc_prune_get(R.best_score, step, C.planes_len) THEN R
      ELSE
        With(drmModeAtomicGetCursor(R.req), LAMBDA cur :
        With(IF plane.layer # NULL THEN R
             ELSE IF ~plane_crtc_compatible_get(plane, C.output) THEN R
             ELSE output_layers_loop_log(C, R, step, cur, 1), LAMBDA Rl :
          IF Rl.ret # OK THEN Rl
          ELSE
            With(output_layers_choose_log(
                   C, Rl, plane_step_init_next(C, Rl.layers, step, NULL)), LAMBDA Rs :
              IF Rs.ret # OK THEN Rs
              ELSE [Rs EXCEPT !.req = drmModeAtomicSetCursor(Rs.req, cur)])))))

RECURSIVE output_layers_choose_noprune(_, _, _)
RECURSIVE output_layers_loop_noprune(_, _, _, _, _)

\* the search with the upper-bound test (alloc.c:378-380) left out: the
\* loop of output_layers_choose over the output's layers, from the i-th
\* on, for the plane of this step; cur is the cursor taken by the node
output_layers_loop_noprune(C, R, step, cur, i) ==
  IF i > Len(C.output.layers) THEN R
  ELSE
    With(C.planes[step.pindex + 1], LAMBDA plane :
    With(C.output.layers[i], LAMBDA lid :
    With(R.layers[lid], LAMBDA layer :
      IF layer.plane # NULL THEN output_layers_loop_noprune(C, R, step, cur, i + 1)
      ELSE IF ~layer_visible_get(layer)
      THEN output_layers_loop_noprune(C, R, step, cur, i + 1)
      ELSE IF ~layer_plane_compatible_get(C, R.layers, step, lid, plane)
      THEN output_layers_loop_noprune(C, R, step, cur, i + 1)
      ELSE
        With(plane_apply(plane, <<layer>>, C.output.crtc_id, R.req), LAMBDA pa :
          IF pa.ret = "EINVAL"
          THEN output_layers_loop_noprune(C, [R EXCEPT !.req = pa.req], step, cur, i + 1)
          ELSE IF pa.ret # OK THEN [R EXCEPT !.req = pa.req, !.ret = pa.ret]
          ELSE
            With([R EXCEPT !.req = pa.req,
                           !.layers[lid] = layer_candidate_plane_add(layer, plane)],
                 LAMBDA Ra :
              IF layer.force_comp \/ ~plane_check_layer_fb(plane, layer)
              THEN output_layers_loop_noprune(
                     C, [Ra EXCEPT !.req = drmModeAtomicSetCursor(Ra.req, cur)],
                     step, cur, i + 1)
              ELSE
                With(device_test_commit(C.drv, Ra.test_commit_counter, Ra.req,
                                        C.planes, C.outputs, Ra.layers), LAMBDA tc :
                With([Ra EXCEPT !.test_commit_counter = tc.test_commit_counter],
                     LAMBDA Rt :
                  IF tc.ret = OK
                  THEN With(output_layers_choose_noprune(
                              C, Rt, plane_step_init_next(C, Rt.layers, step, lid)),
                            LAMBDA Rn :
                              IF Rn.ret # OK THEN Rn
                              ELSE output_layers_loop_noprune(
                                     C, [Rn EXCEPT !.req = drmModeAtomicSetCursor(Rn.req, cur)],
                                     step, cur, i + 1))
                  ELSE IF tc.ret \notin {"EINVAL", "ERANGE", "ENOSPC"}
                  THEN [Rt EXCEPT !.ret = tc.ret]
                  ELSE output_layers_loop_noprune(
                         C, [Rt EXCEPT !.req = drmModeAtomicSetCursor(Rt.req, cur)],
                         step, cur, i + 1))))))))

output_layers_choose_noprune(C, R, step) ==
  IF step.pindex = C.planes_len
  THEN IF step.score > R.best_score /\ alloc_valid_get(C, step)
       THEN [R EXCEPT !.best_score = step.score, !.best = step.alloc]
       ELSE R
  ELSE
    With(C.planes[step.pindex + 1], LAMBDA plane :
      With(drmModeAtomicGetCursor(R.req), LAMBDA cur :
      With(IF plane.layer # NULL THEN R
           ELSE IF ~plane_crtc_compatible_get(plane, C.output) THEN R
           ELSE output_layers_loop_noprune(C, R, step, cur, 1), LAMBDA Rl :
        IF Rl.ret # OK THEN Rl
        ELSE
          With(output_layers_choose_noprune(
                 C, Rl, plane_step_init_next(C, Rl.layers, step, NULL)), LAMBDA Rs :
            IF Rs.ret # OK THEN Rs
            ELSE [Rs EXCEPT !.req = drmModeAtomicSetCursor(Rs.req, cur)]))))

\* E is the engine state [dev, outputs, layers]; K is the kernel side
\* [hw, fbs, drv]

\* the loop of apply_current over the device's planes, from the i-th on
RECURSIVE apply_current_loop(_, _, _, _)
apply_current_loop(E, r, cur, i) ==
  IF i > Len(E.dev.planes) THEN [ret |-> OK, req |-> r]
  ELSE
    With(E.dev.planes[i], LAMBDA plane :
    With(IF plane.layer = NULL THEN <<>> ELSE <<E.layers[plane.layer]>>, LAMBDA layer :
    With(plane_apply(plane, layer,
                     IF layer = <<>> THEN 0 ELSE E.outputs[layer[1].output].crtc_id, r),
         LAMBDA pa :
      IF pa.ret # OK
      THEN [ret |-> pa.ret, req |-> drmModeAtomicSetCursor(pa.req, cur)]
      ELSE apply_current_loop(E, pa.req, cur, i + 1))))

apply_current(E, r) ==
  apply_current_loop(E, r, drmModeAtomicGetCursor(r), 1)

layer_fb_info_needs_realloc(a, b) ==
  \/ a.width # b.width
  \/ a.height # b.height
  \/ a.pixel_format # b.pixel_format
  \/ a.modifier # b.modifier

layers_fb_info_update(E, K, o) ==
  [E EXCEPT !.layers =
     [l \in DOMAIN E.layers |->
        IF l \in Range(E.outputs[o].layers)
        THEN layer_cache_fb_info([E.layers[l] EXCEPT !.fb_info = ZeroFbInfo], K.fbs)
        ELSE E.layers[l]]]

\* the loop body that takes a change to or from an opaque ALPHA for harmless
prop_realloc_get_opaque(layer, prop) ==
  IF prop.index = "FB_ID"
  THEN IF prop.value = 0 /\ prop.prev_value = 0 THEN FALSE
       ELSE IF prop.value = 0 \/ prop.prev_value = 0 THEN TRUE
       ELSE layer_fb_info_needs_realloc(layer.fb_info, layer.prev_fb_info)
  ELSE IF prop.value = prop.prev_value THEN FALSE
  ELSE IF prop.index = "ALPHA"
  THEN prop.value = 0 \/ prop.prev_value = 0
  ELSE IF prop.index = "IN_FENCE_FD" \/ prop.index = "FB_DAMAGE_CLIPS" THEN FALSE
  ELSE TRUE

\* the loop body with FB_DAMAGE_CLIPS taken for a property like any other
prop_realloc_get_clips(layer, prop) ==
  IF prop.index = "FB_ID"
  THEN IF prop.value = 0 /\ prop.prev_value = 0 THEN FALSE
       ELSE IF prop.value = 0 \/ prop.prev_value = 0 THEN TRUE
       ELSE layer_fb_info_needs_realloc(layer.fb_info, layer.prev_fb_info)
  ELSE IF prop.value = prop.prev_value THEN FALSE
  ELSE IF prop.index = "ALPHA"
  THEN \/ prop.value = 0
       \/ prop.prev_value = 0
       \/ prop.value = ALPHA_OPAQUE
       \/ prop.prev_value = ALPHA_OPAQUE
  ELSE IF prop.index = "IN_FENCE_FD" THEN FALSE
  ELSE TRUE

\* what one property of the layer says in the loop of layer_realloc_get
prop_realloc_get(layer, prop) ==
  IF prop.index = "FB_ID"
  THEN IF prop.value = 0 /\ prop.prev_value = 0 THEN FALSE
       ELSE IF prop.value = 0 \/ prop.prev_value = 0 THEN TRUE
       ELSE layer_fb_info_needs_realloc(layer.fb_info, layer.prev_fb_info)
  ELSE IF prop.value = prop.prev_value THEN FALSE
  ELSE IF prop.index = "ALPHA"
  THEN \/ prop.value = 0
       \/ prop.prev_value = 0
       \/ prop.value = ALPHA_OPAQUE
       \/ prop.prev_value = ALPHA_OPAQUE
  ELSE IF prop.index = "IN_FENCE_FD" \/ prop.index = "FB_DAMAGE_CLIPS" THEN FALSE
  ELSE TRUE

layer_realloc_get(layer) ==
  IF layer.changed THEN TRUE
  ELSE \E i \in 1..Len(layer.props) : prop_realloc_get(layer, layer.props[i])

\* the guard of reuse_prev_alloc: no return of -EINVAL before the staging
reuse_guard_get(E, o) ==
  /\ ~E.outputs[o].layers_changed
  /\ \A k \in 1..Len(E.outputs[o].layers) :
       ~layer_realloc_get(E.layers[E.outputs[o].layers[k]])

reuse_prev_alloc(E, K, o, r) ==
  IF ~reuse_guard_get(E, o)
  THEN [ret |-> "EINVAL", req |-> r, attempted |-> FALSE,
        test_commit_counter |-> E.dev.test_commit_counter]
  ELSE
    With(drmModeAtomicGetCursor(r), LAMBDA cur :
    With(apply_current(E, r), LAMBDA ac :
      IF ac.ret # OK
      THEN [ret |-> ac.ret, req |-> ac.req, attempted |-> TRUE,
            test_commit_counter |-> E.dev.test_commit_counter]
      ELSE
        With(device_test_commit(K.drv, E.dev.test_commit_counter, ac.req,
                                E.dev.planes, E.outputs, E.layers), LAMBDA tc :
          [ret |-> tc.ret, attempted |-> TRUE,
           req |-> IF tc.ret # OK THEN drmModeAtomicSetCursor(ac.req, cur)
                   ELSE ac.req,
           test_commit_counter |-> tc.test_commit_counter])))

layers_mark_clean(E, o) ==
  [E EXCEPT
     !.outputs[o].layers_changed = FALSE,
     !.layers = [l \in DOMAIN E.layers |->
                   IF l \in Range(E.outputs[o].layers)
                   THEN layer_clean(E.layers[l]) ELSE E.layers[l]]]

layers_priority_update(E) ==
  With(E.dev.page_flip_counter + 1, LAMBDA counter :
  With(counter >= LIFTOFF_RPI_PRIORITY_PERIOD, LAMBDA elapsed :
      [E EXCEPT
         !.dev.page_flip_counter = IF elapsed THEN 0 ELSE counter,
         !.layers = [l \in DOMAIN E.layers |->
                       IF \E x \in DOMAIN E.outputs : l \in Range(E.outputs[x].layers)
                       THEN layer_priority_update(E.layers[l], elapsed)
                       ELSE E.layers[l]]]))

\* a reuse that drops every binding of the layers
log_reuse_unbind(E, o) ==
  [E EXCEPT !.outputs[o].alloc_reused_counter = @ + 1,
            !.layers = [l \in DOMAIN E.layers |-> [E.layers[l] EXCEPT !.plane = NULL]]]

log_reuse(E, o) ==
  [E EXCEPT !.outputs[o].alloc_reused_counter = @ + 1]

log_no_reuse(E, o) ==
  [E EXCEPT !.outputs[o].alloc_reused_counter = 0]

non_comp_layers_len(E, o) ==
  Cardinality({k \in 1..Len(E.outputs[o].layers) :
                 /\ layer_visible_get(E.layers[E.outputs[o].layers[k]])
                 /\ E.outputs[o].comp_layer # E.outputs[o].layers[k]})

\* the bindings of the output's layers left as they are
apply_unbind_keep(E, o) == E

\* the loop without the test of the layer's output: every bound plane is
\* unbound
apply_unbind_all(E, o) ==
  [E EXCEPT
     !.dev.planes = [i \in 1..Len(E.dev.planes) |->
                       [E.dev.planes[i] EXCEPT !.layer = NULL]],
     !.layers = [l \in DOMAIN E.layers |-> [E.layers[l] EXCEPT !.plane = NULL]]]

\* the first loop of liftoff_rpi_output_apply after the reuse attempt: the
\* bindings of the output's layers are cleared on both sides
apply_unbind(E, o) ==
  LET mine(i) == /\ E.dev.planes[i].layer # NULL
                 /\ E.layers[E.dev.planes[i].layer].output = o
      freed == {E.dev.planes[i].layer : i \in {j \in 1..Len(E.dev.planes) : mine(j)}}
  IN  [E EXCEPT
         !.dev.planes = [i \in 1..Len(E.dev.planes) |->
                           IF mine(i) THEN [E.dev.planes[i] EXCEPT !.layer = NULL]
                           ELSE E.dev.planes[i]],
         !.layers = [l \in DOMAIN E.layers |->
                       IF l \in freed THEN [E.layers[l] EXCEPT !.plane = NULL]
                       ELSE E.layers[l]]]

\* the second loop: every plane without a layer is disabled in the request
RECURSIVE apply_disable_loop(_, _, _)
apply_disable_loop(E, r, i) ==
  IF i > Len(E.dev.planes) THEN [ret |-> OK, req |-> r]
  ELSE IF E.dev.planes[i].layer # NULL THEN apply_disable_loop(E, r, i + 1)
  ELSE With(plane_apply(E.dev.planes[i], <<>>, 0, r), LAMBDA pa :
         IF pa.ret # OK THEN pa ELSE apply_disable_loop(E, pa.req, i + 1))

\* the loop after the search: plane i takes best[i]
apply_install(E, best) ==
  LET at(l) == {i \in 1..Len(E.dev.planes) : best[i] = l}
  IN  [E EXCEPT
         !.dev.planes = [i \in 1..Len(E.dev.planes) |->
                           IF best[i] # NULL
                           THEN [E.dev.planes[i] EXCEPT !.layer = best[i]]
                           ELSE E.dev.planes[i]],
         !.layers = [l \in DOMAIN E.layers |->
                       IF at(l) # {}
                       THEN [E.layers[l] EXCEPT !.plane =
                               E.dev.planes[CHOOSE i \in at(l) : \A j \in at(l) : j <= i].id]
                       ELSE E.layers[l]]]

SearchContext(E, K, o) ==
  [output |-> E.outputs[o],
   outputs |-> E.outputs,
   planes |-> E.dev.planes,
   drv |-> K.drv,
   planes_len |-> Len(E.dev.planes),
   has_comp_layer |-> E.outputs[o].comp_layer # NULL,
   non_comp_layers_len |-> non_comp_layers_len(E, o)]

FirstStep ==
  [pindex |-> 0, alloc |-> <<>>, score |-> 0, composited |-> FALSE,
   last_layer_zpos |-> INT_MAX,
   primary_layer_zpos |-> INT_MIN,
   primary_plane_zpos |-> INT_MAX]

\* path names the place liftoff_rpi_output_apply returned from: "reuse"
\* (line 706), "disable" (738), "search" (768), "restage" (808), "done" (815);
\* attempted tells that reuse_prev_alloc got past its guard
liftoff_rpi_output_apply(E, K, o, r) ==
  With(layers_fb_info_update(layers_priority_update(E), K, o), LAMBDA E1 :
  With(reuse_prev_alloc(E1, K, o, r), LAMBDA ru :
    IF ru.ret = OK
    THEN [E |-> log_reuse([E1 EXCEPT !.dev.test_commit_counter = ru.test_commit_counter], o),
          req |-> ru.req, ret |-> OK,
          attempted |-> ru.attempted, path |-> "reuse", best_score |-> -1]
    ELSE
      With(log_no_reuse(E1, o), LAMBDA E2 :
      With([E2 EXCEPT
              !.dev.test_commit_counter = 0,
              !.layers = [l \in DOMAIN E2.layers |->
                            IF l \in Range(E2.outputs[o].layers)
                            THEN layer_candidate_planes_reset(E2.layers[l])
                            ELSE E2.layers[l]]], LAMBDA E3 :
      With(apply_unbind(E3, o), LAMBDA E4 :
      With(apply_disable_loop(E4, ru.req, 1), LAMBDA dis :
        IF dis.ret # OK
        THEN [E |-> E4, req |-> dis.req, ret |-> dis.ret,
              attempted |-> ru.attempted, path |-> "disable", best_score |-> -1]
        ELSE
          With(SearchContext(E4, K, o), LAMBDA C :
          With(output_layers_choose(
                 C,
                 [best |-> [i \in 1..C.planes_len |-> NULL],
                  best_score |-> -1,
                  req |-> dis.req,
                  layers |-> E4.layers,
                  test_commit_counter |-> E4.dev.test_commit_counter,
                  ret |-> OK],
                 FirstStep), LAMBDA R :
          With([E4 EXCEPT !.layers = R.layers,
                          !.dev.test_commit_counter = R.test_commit_counter], LAMBDA E5 :
            IF R.ret # OK
            THEN [E |-> E5, req |-> R.req, ret |-> R.ret,
                  attempted |-> ru.attempted, path |-> "search",
                  best_score |-> R.best_score]
            ELSE
              With(apply_install(E5, R.best), LAMBDA E6 :
              With(apply_current(E6, R.req), LAMBDA ac :
                IF ac.ret # OK
                THEN [E |-> E6, req |-> ac.req, ret |-> ac.ret,
                      attempted |-> ru.attempted, path |-> "restage",
                      best_score |-> R.best_score]
                ELSE [E |-> layers_mark_clean(E6, o), req |-> ac.req,
                      ret |-> OK, attempted |-> ru.attempted, path |-> "done",
                      best_score |-> R.best_score])))))))))))

--------------------------------------------------------------------------
(* Creation and destruction: src/plane.c, src/layer.c, src/output.c *)

\* the name switch of liftoff_rpi_plane_create: the enum of a kernel name,
\* "" for a name the library does not know
plane_prop_index(name) ==
  CASE name = "type" -> "TYPE"
    [] name \in {"FB_ID", "CRTC_ID", "CRTC_X", "CRTC_Y", "CRTC_W", "CRTC_H",
                 "SRC_X", "SRC_Y", "SRC_W", "SRC_H", "FB_DAMAGE_CLIPS",
                 "IN_FENCE_FD", "IN_FORMATS"} -> name
    [] name = "zpos" -> "ZPOS"
    [] name = "alpha" -> "ALPHA"
    [] name = "rotation" -> "ROTATION"
    [] name = "SCALING FILTER" -> "SCALING_FILTER"
    [] name = "pixel blend mode" -> "PIXEL_BLEND_MODE"
    [] OTHER -> ""

\* the value the kernel reports for the property called name (the last one
\* of that name), <<>> when the plane has none
KernelPropValue(dprops, name) ==
  With({i \in 1..Len(dprops) : dprops[i].name = name}, LAMBDA hits :
    IF hits = {} THEN <<>>
    ELSE <<dprops[CHOOSE i \in hits : \A j \in hits : j <= i].value>>)

\* every plane linked at the tail of the list
plane_insert_position_tail(planes, plane) == Len(planes) + 1

\* where liftoff_rpi_plane_create links a plane into planes: 1 is the head,
\* Len + 1 the tail
plane_insert_position(planes, plane) ==
  IF plane.type = "PRIMARY" THEN 1
  ELSE With({i \in 1..Len(planes) :
               planes[i].type # "PRIMARY" /\ plane.zpos >= planes[i].zpos},
            LAMBDA hits : IF hits = {} THEN Len(planes) + 1
                          ELSE CHOOSE i \in hits : \A j \in hits : i <= j)

InsertAt(seq, i, e) ==
  SubSeq(seq, 1, i - 1) \o <<e>> \o SubSeq(seq, i, Len(seq))

RemoveAt(seq, i) ==
  SubSeq(seq, 1, i - 1) \o SubSeq(seq, i + 1, Len(seq))

\* the creation without the search for a plane of the same id
liftoff_rpi_plane_create_twice(E, K, id) ==
  With(K.hw[id].props, LAMBDA dprops :
  With(KernelPropValue(dprops, "type"), LAMBDA type :
  With(KernelPropValue(dprops, "zpos"), LAMBDA zpos :
  With([id |-> id,
        possible_crtcs |-> K.hw[id].possible_crtcs,
        type |-> IF type = <<>> THEN "" ELSE type[1],
        props |-> [i \in 1..Len(dprops) |->
                     [index |-> plane_prop_index(dprops[i].name),
                      kind |-> dprops[i].kind,
                      values |-> dprops[i].values,
                      immutable |-> dprops[i].immutable]],
        props_len |-> Len(dprops),
        in_formats_blob |-> <<>>,
        zpos |-> IF zpos # <<>> THEN zpos[1] ELSE 0,
        layer |-> NULL], LAMBDA plane :
    [E |-> [E EXCEPT !.dev.planes =
              InsertAt(E.dev.planes, plane_insert_position(E.dev.planes, plane), plane)],
     ret |-> OK]))))

liftoff_rpi_plane_create(E, K, id) ==
  IF \E i \in 1..Len(E.dev.planes) : E.dev.planes[i].id = id
  THEN [E |-> E, ret |-> "EEXIST"]
  ELSE
    With(K.hw[id].props, LAMBDA dprops :
    With({i \in 1..Len(dprops) : plane_prop_index(dprops[i].name) # ""}, LAMBDA known :
    With(KernelPropValue(dprops, "type"), LAMBDA type :
    With(KernelPropValue(dprops, "zpos"), LAMBDA zpos :
    With([id |-> id,
          possible_crtcs |-> K.hw[id].possible_crtcs,
          type |-> IF type = <<>> THEN "" ELSE type[1],
          props |-> [i \in 1..Len(dprops) |->
                       IF i \in known
                       THEN [index |-> plane_prop_index(dprops[i].name),
                             kind |-> dprops[i].kind,
                             values |-> dprops[i].values,
                             immutable |-> dprops[i].immutable]
                       ELSE [index |-> "", kind |-> "", values |-> <<>>,
                             immutable |-> FALSE]],
          props_len |-> Cardinality(known),
          in_formats_blob |->
            IF KernelPropValue(dprops, "IN_FORMATS") = <<>> THEN <<>>
            ELSE K.hw[id].in_formats,
          zpos |-> 0,
          layer |-> NULL], LAMBDA plane0 :
    With([plane0 EXCEPT !.zpos =
            IF zpos # <<>> THEN zpos[1]
            ELSE plane_zpos_guess(E.dev, id, plane0.type)], LAMBDA plane :
      IF type = <<>> THEN [E |-> E, ret |-> "EINVAL"]
      ELSE [E |-> [E EXCEPT !.dev.planes =
                     InsertAt(E.dev.planes,
                              plane_insert_position(E.dev.planes, plane), plane)],
            ret |-> OK]))))))

\* i is the position of the plane in the device's list
liftoff_rpi_plane_destroy(E, i) ==
  LET plane == E.dev.planes[i]
  IN  [E EXCEPT
         !.layers = [l \in DOMAIN E.layers |->
                       IF l = plane.layer THEN [E.layers[l] EXCEPT !.plane = NULL]
                       ELSE E.layers[l]],
         !.dev.planes = RemoveAt(E.dev.planes, i)]

\* the mutant of liftoff_rpi_layer_create: the layer goes to the head of the
\* output's list
liftoff_rpi_layer_create_front(E, o, l) ==
  LET layer ==
        [output |-> o, plane |-> NULL, props |-> <<>>,
         candidate_planes |-> [i \in 1..E.dev.planes_cap |-> 0],
         current_priority |-> 0, pending_priority |-> 0,
         force_comp |-> FALSE, changed |-> FALSE,
         fb_info |-> ZeroFbInfo, prev_fb_info |-> ZeroFbInfo]
  IN  [E EXCEPT
         !.layers = [x \in DOMAIN E.layers \cup {l} |->
                       IF x = l THEN layer ELSE E.layers[x]],
         !.outputs[o].layers = <<l>> \o @,
         !.outputs[o].layers_changed = TRUE]

\* l is the address calloc returns: an id no live layer has
liftoff_rpi_layer_create(E, o, l) ==
  LET layer ==
        [output |-> o, plane |-> NULL, props |-> <<>>,
         candidate_planes |-> [i \in 1..E.dev.planes_cap |-> 0],
         current_priority |-> 0, pending_priority |-> 0,
         force_comp |-> FALSE, changed |-> FALSE,
         fb_info |-> ZeroFbInfo, prev_fb_info |-> ZeroFbInfo]
  IN  [E EXCEPT
         !.layers = [x \in DOMAIN E.layers \cup {l} |->
                       IF x = l THEN layer ELSE E.layers[x]],
         !.outputs[o].layers = Append(@, l),
         !.outputs[o].layers_changed = TRUE]

\* the destroy without the reset of plane->layer
liftoff_rpi_layer_destroy_dangling(E, l) ==
  LET layer == E.layers[l]
      o == layer.output
      k == CHOOSE k \in 1..Len(E.outputs[o].layers) : E.outputs[o].layers[k] = l
  IN  [E EXCEPT
         !.outputs[o].layers_changed = TRUE,
         !.outputs[o].comp_layer = IF @ = l THEN NULL ELSE @,
         !.outputs[o].layers = RemoveAt(@, k),
         !.layers = [x \in DOMAIN E.layers \ {l} |-> E.layers[x]]]

liftoff_rpi_layer_destroy(E, l) ==
  LET layer == E.layers[l]
      o == layer.output
      k == CHOOSE k \in 1..Len(E.outputs[o].layers) : E.outputs[o].layers[k] = l
  IN  [E EXCEPT
         !.outputs[o].layers_changed = TRUE,
         !.outputs[o].comp_layer = IF @ = l THEN NULL ELSE @,
         !.outputs[o].layers = RemoveAt(@, k),
         !.dev.planes = [i \in 1..Len(E.dev.planes) |->
                           IF E.dev.planes[i].id = layer.plane
                           THEN [E.dev.planes[i] EXCEPT !.layer = NULL]
                           ELSE E.dev.planes[i]],
         !.layers = [x \in DOMAIN E.layers \ {l} |-> E.layers[x]]]

\* the set without the refusal of CRTC_ID
liftoff_rpi_layer_property_set_crtc(E, l, property, value) ==
  With(E.layers[l], LAMBDA layer :
  With(layer_property_index(layer, property), LAMBDA i :
  With(IF i # 0 THEN layer
       ELSE [layer EXCEPT
               !.props = Append(@, [index |-> property, value |-> 0,
                                    prev_value |-> 0]),
               !.changed = TRUE], LAMBDA added :
    [E |-> [E EXCEPT !.layers[l] =
              [added EXCEPT !.props[IF i # 0 THEN i ELSE Len(added.props)].value = value]],
     ret |-> OK])))

liftoff_rpi_layer_property_set(E, l, property, value) ==
  IF property = "CRTC_ID" THEN [E |-> E, ret |-> "EINVAL"]
  ELSE
    With(E.layers[l], LAMBDA layer :
    With(layer_property_index(layer, property), LAMBDA i :
    With(IF i # 0 THEN layer
         ELSE [layer EXCEPT
                 !.props = Append(@, [index |-> property, value |-> 0,
                                      prev_value |-> 0]),
                 !.changed = TRUE], LAMBDA added :
    With([added EXCEPT !.props[IF i # 0 THEN i ELSE Len(added.props)].value = value],
         LAMBDA set :
      [E |-> [E EXCEPT !.layers[l] =
                IF property = "FB_ID" /\ set.force_comp
                THEN [set EXCEPT !.force_comp = FALSE, !.changed = TRUE]
                ELSE set],
       ret |-> OK]))))

liftoff_rpi_layer_property_unset(E, l, property) ==
  With(E.layers[l], LAMBDA layer :
  With(layer_property_index(layer, property), LAMBDA i :
  With(Len(layer.props), LAMBDA n :
    IF i = 0 THEN E
    ELSE [E EXCEPT !.layers[l] =
            [layer EXCEPT
               !.props = SubSeq(IF i # n THEN [layer.props EXCEPT ![i] = layer.props[n]]
                                ELSE layer.props,
                                1, n - 1),
               !.changed = TRUE]])))

liftoff_rpi_layer_fb_composited_set(E, l) ==
  IF E.layers[l].force_comp THEN E
  ELSE [liftoff_rpi_layer_property_set(E, l, "FB_ID", 0).E
          EXCEPT !.layers[l].force_comp = TRUE, !.layers[l].changed = TRUE]

liftoff_rpi_output_composition_layer_set(E, o, l) ==
  IF E.layers[l].output # o THEN E
  ELSE [E EXCEPT
          !.outputs[o].layers_changed = IF l # E.outputs[o].comp_layer THEN TRUE ELSE @,
          !.outputs[o].comp_layer = l]

liftoff_rpi_layer_needs_composition(E, l) ==
  IF ~layer_visible_get(E.layers[l]) THEN FALSE
  ELSE E.layers[l].plane = NULL

liftoff_rpi_output_needs_composition(E, o) ==
  \E k \in 1..Len(E.outputs[o].layers) :
    liftoff_rpi_layer_needs_composition(E, E.outputs[o].layers[k])

--------------------------------------------------------------------------
(* The kernel side the runs are checked against *)

KProp(name, kind, values, value) ==
  [name |-> name, kind |-> kind, values |-> values, immutable |-> FALSE,
   value |-> value]

\* the properties every plane of the modelled hardware has
PlaneBaseProps(type) ==
  <<[KProp("type", "ENUM", <<"OVERLAY", "PRIMARY", "CURSOR">>, type)
       EXCEPT !.immutable = TRUE],
    KProp("FB_ID", "OBJECT", <<>>, 0),
    KProp("CRTC_ID", "OBJECT", <<>>, 0),
    KProp("CRTC_X", "SIGNED_RANGE", <<-INT_MAX, INT_MAX>>, 0),
    KProp("CRTC_Y", "SIGNED_RANGE", <<-INT_MAX, INT_MAX>>, 0),
    KProp("CRTC_W", "RANGE", <<0, INT_MAX>>, 0),
    KProp("CRTC_H", "RANGE", <<0, INT_MAX>>, 0)>>

ZposProp(z) == [KProp("zpos", "RANGE", <<0, 255>>, z) EXCEPT !.immutable = TRUE]

AlphaProp == KProp("alpha", "RANGE", <<0, ALPHA_OPAQUE>>, ALPHA_OPAQUE)

HwPlane(type, crtcs, extra) ==
  [possible_crtcs |-> crtcs, props |-> PlaneBaseProps(type) \o extra,
   in_formats |-> <<>>]

\* the CRTC table of the device (drmModeGetResources)
CrtcTable == <<31, 32>>

OutputIds == 1..Len(CrtcTable)

FbInfo(format) ==
  [fb_id |-> 0, width |-> 64, height |-> 64, pixel_format |-> format,
   modifier |-> 0, flags |-> 0]

FbIds == 1..2

Driver(bad, cap, need_primary, fatal) ==
  [bad |-> bad, cap |-> cap, need_primary |-> need_primary, fatal |-> fatal,
   code |-> "EINVAL", intr |-> <<>>, dep |-> {}]

EmptyReq == [items |-> <<>>, cap |-> MaxReq]

NoRes ==
  [op |-> "", output |-> 0, ret |-> OK, attempted |-> FALSE, path |-> "",
   best_score |-> -1]

--------------------------------------------------------------------------
(* The state machine: one action per API call *)

Engine == [dev |-> dev, outputs |-> outputs, layers |-> layers]

Kernel == [hw |-> hw, fbs |-> fbs, drv |-> drv]

\* liftoff_rpi_device_create on a kernel with the planes of h
liftoff_rpi_device_create(h) ==
  [planes |-> <<>>, planes_cap |-> Cardinality(DOMAIN h), crtcs |-> CrtcTable,
   test_commit_counter |-> 0, page_flip_counter |-> 0]

\* o is the place of crtc_id in the CRTC table
liftoff_rpi_output_create(o) ==
  [crtc_id |-> CrtcTable[o], crtc_index |-> o - 1, layers |-> <<>>,
   comp_layer |-> NULL, layers_changed |-> FALSE, alloc_reused_counter |-> 0]

\* the engine after the device and one output per CRTC are created
NewEngine(h) ==
  [dev |-> liftoff_rpi_device_create(h),
   outputs |-> [o \in OutputIds |-> liftoff_rpi_output_create(o)],
   layers |-> <<>>]

\* the loop of liftoff_rpi_device_register_planes, from the i-th plane on
RECURSIVE liftoff_rpi_device_register_planes(_, _, _)
liftoff_rpi_device_register_planes(E, K, i) ==
  IF i > Cardinality(DOMAIN K.hw) THEN E
  ELSE With(liftoff_rpi_plane_create(E, K, i), LAMBDA c :
         IF c.ret # OK THEN E
         ELSE liftoff_rpi_device_register_planes(c.E, K, i + 1))

\* the state when the client has built the engine E on the kernel K
InitEngine(K, E) ==
  /\ hw = K.hw
  /\ fbs = K.fbs
  /\ drv = K.drv
  /\ dev = E.dev
  /\ outputs = E.outputs
  /\ layers = E.layers
  /\ req = EmptyReq
  /\ res = NoRes

SetEngine(E) ==
  /\ dev' = E.dev
  /\ outputs' = E.outputs
  /\ layers' = E.layers

\* a call other than apply: the caller is done with the last request
Client(E) ==
  /\ SetEngine(E)
  /\ req' = EmptyReq
  /\ res' = NoRes
  /\ UNCHANGED <<hw, fbs, drv>>

PlaneCreate(id) ==
  Client(liftoff_rpi_plane_create(Engine, Kernel, id).E)

PlaneDestroy(i) ==
  /\ i \in 1..Len(dev.planes)
  /\ Client(liftoff_rpi_plane_destroy(Engine, i))

LayerCreate(o) ==
  /\ Cardinality(DOMAIN layers) < LifeLayers
  /\ Client(liftoff_rpi_layer_create(
              Engine, o, CHOOSE x \in LayerIds :
                           /\ x \notin DOMAIN layers
                           /\ \A y \in LayerIds \ DOMAIN layers : x <= y))

LayerDestroy(l) ==
  /\ l \in DOMAIN layers
  /\ Client(liftoff_rpi_layer_destroy(Engine, l))

LayerPropertySet(l, property, value) ==
  /\ l \in DOMAIN layers
  /\ Client(liftoff_rpi_layer_property_set(Engine, l, property, value).E)

LayerPropertyUnset(l, property) ==
  /\ l \in DOMAIN layers
  /\ Client(liftoff_rpi_layer_property_unset(Engine, l, property))

LayerFbCompositedSet(l) ==
  /\ l \in DOMAIN layers
  /\ Client(liftoff_rpi_layer_fb_composited_set(Engine, l))

CompositionLayerSet(o, l) ==
  /\ l \in DOMAIN layers
  /\ Client(liftoff_rpi_output_composition_layer_set(Engine, o, l))

\* the client frees framebuffer fb and the kernel gives its id to a new one
FbRecreate(fb, info) ==
  /\ fbs[fb] # <<info>>
  /\ fbs' = [fbs EXCEPT ![fb] = <<info>>]
  /\ req' = EmptyReq
  /\ res' = NoRes
  /\ UNCHANGED <<hw, drv, dev, outputs, layers>>

\* the caller's view of an apply on output o that returned a
ApplyReturn(o, a) ==
  /\ SetEngine(a.E)
  /\ req' = a.req
  /\ res' = [op |-> "apply", output |-> o, ret |-> a.ret,
             attempted |-> a.attempted, path |-> a.path,
             best_score |-> a.best_score]

Apply(o, r) ==
  /\ dev.page_flip_counter < MaxApply
  /\ ApplyReturn(o, liftoff_rpi_output_apply(Engine, Kernel, o, r))
  /\ UNCHANGED <<hw, fbs, drv>>

-------------------------------------------------------------------------------------------------------------------------------------------
(* Spec: the life of a device.  The client registers and destroys planes,  *)
(* creates and destroys layers on the first output, sets and unsets their  *)
(* framebuffer, chooses the composition layer and applies.                 *)

\* a primary plane at zpos 0 and overlays at zpos 1, for both CRTCs
LifeHw ==
  [p \in 1..LifePlanes |->
     IF p = 1 THEN HwPlane("PRIMARY", 3, <<ZposProp(0)>>)
     ELSE HwPlane("OVERLAY", 3, <<ZposProp(1)>>)]

\* a driver that accepts everything, and one that wants the primary plane
\* of the first CRTC lit and fails hard on framebuffer 1 on plane 2
LifeDrivers ==
  {Driver({}, LifePlanes, {}, {}),
   Driver({}, LifePlanes, {CrtcTable[1]}, {<<2, 1>>})}

Init ==
  \E d \in LifeDrivers :
    InitEngine([hw |-> LifeHw, fbs |-> [f \in FbIds |-> <<FbInfo(1)>>], drv |-> d],
               NewEngine(LifeHw))

Next ==
  \/ \E id \in DOMAIN hw : PlaneCreate(id)
  \/ \E i \in 1..LifePlanes : PlaneDestroy(i)
  \/ LayerCreate(1)
  \/ \E l \in LayerIds : LayerDestroy(l)
  \/ \E l \in LayerIds : LayerPropertySet(l, "FB_ID", 1)
  \/ \E l \in LayerIds : LayerPropertyUnset(l, "FB_ID")
  \/ \E l \in LayerIds : CompositionLayerSet(1, l)
  \/ Apply(1, EmptyReq)

Spec == Init /\ [][Next]_vars

--------------------------------------------------------------------------
(* SpecAlloc: one allocation on the first output, from every bounded set   *)
(* of planes, layers and driver answers.  The state before the apply is    *)
(* built with the library's own calls.                                     *)

\* the calls liftoff_rpi_layer_property_set(l, pvs[i][1], pvs[i][2]), from i
\* on, up to the first that fails
RECURSIVE LayerSetAll(_, _, _, _)
LayerSetAll(E, l, pvs, i) ==
  IF i > Len(pvs) THEN E
  ELSE With(liftoff_rpi_layer_property_set(E, l, pvs[i][1], pvs[i][2]), LAMBDA s :
         IF s.ret # OK THEN s.E
         ELSE LayerSetAll(s.E, l, pvs, i + 1))

\* one liftoff_rpi_layer_create per entry of descs, from the l-th on, on
\* output outs[l], each followed by its property sets; a layer's id is one
\* that no live layer has
RECURSIVE LayersBuild(_, _, _, _)
LayersBuild(E, outs, descs, l) ==
  IF l > Len(descs) \/ l \in DOMAIN E.layers THEN E
  ELSE LayersBuild(LayerSetAll(liftoff_rpi_layer_create(E, outs[l], l), l, descs[l], 1),
                   outs, descs, l + 1)

\* a client's layer: framebuffer fb, a 2x2 rectangle at (x, 0), and ZPOS z
\* when z is <<z>>
LayerDesc(fb, x, z) ==
  <<<<"FB_ID", fb>>, <<"CRTC_X", x>>, <<"CRTC_Y", 0>>, <<"CRTC_W", 2>>,
    <<"CRTC_H", 2>>>> \o (IF z = <<>> THEN <<>> ELSE <<<<"ZPOS", z[1]>>>>)

\* the engine of a scenario: planes registered, layers created and set, the
\* composition layer chosen (comp = 0: none)
ScenarioEngine(sc) ==
  With(LayersBuild(liftoff_rpi_device_register_planes(
                     NewEngine(sc.hw), [hw |-> sc.hw], 1),
                   sc.outs, sc.descs, 1), LAMBDA E1 :
    IF sc.comp = NULL THEN E1
    ELSE liftoff_rpi_output_composition_layer_set(E1, sc.outs[sc.comp], sc.comp))

\* planes with an explicit zpos: a primary at 1, then overlays below (0) or
\* above (2) it
ZHw ==
  {[p \in 1..n |-> IF p = 1 THEN HwPlane("PRIMARY", 1, <<ZposProp(1)>>)
                   ELSE HwPlane("OVERLAY", 1, <<ZposProp(z[p])>>)] :
     n \in 1..MaxPlanes, z \in [1..MaxPlanes -> {0, 2}]}

\* m layers, each at x in 0..2 and with no ZPOS or a ZPOS in 0..2
ZDescs(m) == [1..m -> [x : 0..2, z : {<<>>, <<0>>, <<1>>, <<2>>}]]

\* z-order scenarios: the driver accepts everything
ScenariosZ ==
  {[hw |-> h, drv |-> Driver({}, MaxPlanes, {}, {}), comp |-> NULL,
    outs |-> [l \in DOMAIN d |-> 1],
    descs |-> [l \in DOMAIN d |-> LayerDesc(l, d[l].x, d[l].z)]] :
     h \in ZHw, d \in UNION {ZDescs(m) : m \in 1..MaxLayers - 1}}

\* planes without zpos: a primary and overlays of one output
PlainHw(n) ==
  [p \in 1..n |-> IF p = 1 THEN HwPlane("PRIMARY", 1, <<>>)
                  ELSE HwPlane("OVERLAY", 1, <<>>)]

\* the drivers that reject up to two pairs <<plane, framebuffer>>, that may
\* scan out one plane less than there are, and that may want the primary on
AllocDrivers(n, m) ==
  {Driver(bad, cap, np, {}) :
     bad \in {b \in SUBSET ((1..n) \X (1..m)) : Cardinality(b) <= 2},
     cap \in {MaxPlanes - 1, MaxPlanes},
     np \in {{}, {CrtcTable[1]}}}

\* driver scenarios: layers without ZPOS, with or without a composition layer
ScenariosD ==
  UNION {{[hw |-> PlainHw(n), drv |-> d, comp |-> c,
           outs |-> [l \in 1..m |-> 1],
           descs |-> [l \in 1..m |-> LayerDesc(l, 0, <<>>)]] :
            d \in AllocDrivers(n, m), c \in 0..m} :
         n \in 1..MaxPlanes, m \in 1..MaxLayers}

\* planes of either CRTC or of both, a primary first
MaskHw ==
  {[p \in 1..MaxPlanes |->
      HwPlane(IF p = 1 THEN "PRIMARY" ELSE "OVERLAY", mask[p], <<>>)] :
     mask \in [1..MaxPlanes -> 1..3]}

\* CRTC scenarios: layers on both outputs, the driver accepts everything
ScenariosM ==
  {[hw |-> h, drv |-> Driver({}, MaxPlanes, {}, {}), comp |-> NULL,
    outs |-> o, descs |-> [l \in DOMAIN o |-> LayerDesc(l, 0, <<>>)]] :
     h \in MaskHw, o \in UNION {[1..m -> OutputIds] : m \in 1..MaxLayers}}

\* overlays of equal zpos, one of which scans out only while the other
\* does: the driver accepts both lit and rejects the dependent one alone
ScenariosP ==
  {[hw |-> [p \in 1..MaxPlanes |->
              IF p = 1 THEN HwPlane("PRIMARY", 1, <<ZposProp(0)>>)
              ELSE HwPlane("OVERLAY", 1, <<ZposProp(1)>>)],
    drv |-> [Driver({}, MaxPlanes, {}, {}) EXCEPT !.dep = {pq}],
    comp |-> NULL,
    outs |-> [l \in 1..m |-> 1],
    descs |-> [l \in 1..m |-> LayerDesc(l, 0, <<>>)]] :
     pq \in {<<2, 3>>, <<3, 2>>}, m \in 2..MaxLayers}

\* stacks: a primary at zpos 0 under one or two overlays, and two or three
\* layers with no ZPOS or a ZPOS in 0..2 that all overlap, or whose last
\* stands apart; the driver accepts everything
ScenariosO ==
  {[hw |-> [p \in 1..Len(zs) |->
              HwPlane(IF p = 1 THEN "PRIMARY" ELSE "OVERLAY", 1, <<ZposProp(zs[p])>>)],
    drv |-> Driver({}, MaxPlanes, {}, {}), comp |-> NULL,
    outs |-> [l \in DOMAIN z |-> 1],
    descs |-> [l \in DOMAIN z |->
                 LayerDesc(l, IF l = Len(z) THEN x ELSE 0, z[l])]] :
     zs \in {<<0, 1>>, <<0, 1, 1>>, <<0, 1, 2>>},
     z \in UNION {[1..m -> {<<>>, <<0>>, <<1>>, <<2>>}] : m \in 2..MaxLayers},
     x \in {0, 2}}

\* the kernel of a scenario: every layer's framebuffer exists
ScenarioKernel(sc) ==
  [hw |-> sc.hw, fbs |-> [f \in 1..MaxLayers |-> <<FbInfo(1)>>], drv |-> sc.drv]

InitAlloc ==
  \E sc \in ScenariosZ \cup ScenariosD \cup ScenariosM \cup ScenariosP
                \cup ScenariosO :
    InitEngine(ScenarioKernel(sc), ScenarioEngine(sc))

NextAlloc == \E o \in OutputIds : Apply(o, EmptyReq)

SpecAlloc == InitAlloc /\ [][NextAlloc]_vars

--------------------------------------------------------------------------
(* SpecComp: the client moves the composition layer between applies, on a  *)
(* device whose driver rejects one framebuffer on every plane, or none.    *)

ScenariosC ==
  UNION {{[hw |-> PlainHw(n), drv |-> Driver((1..n) \X f, cap, {}, {}), comp |-> c,
           outs |-> [l \in 1..m |-> 1],
           descs |-> [l \in 1..m |-> LayerDesc(l, 0, <<>>)]] :
            f \in {{}} \cup {{x} : x \in 1..m},
            cap \in {MaxPlanes - 1, MaxPlanes},
            c \in 0..m} :
         n \in 2..MaxPlanes, m \in 2..MaxLayers}

InitComp ==
  \E sc \in ScenariosC : InitEngine(ScenarioKernel(sc), ScenarioEngine(sc))

\* the client makes its calls before the last apply of the run
ClientActive == dev.page_flip_counter < MaxApply

NextComp ==
  \/ \E l \in LayerIds : ClientActive /\ CompositionLayerSet(1, l)
  \/ Apply(1, EmptyReq)

SpecComp == InitComp /\ [][NextComp]_vars

--------------------------------------------------------------------------
(* SpecReuse: one layer whose properties the client changes between the   *)
(* applies, and a framebuffer id the kernel gives to a new framebuffer.    *)

ReuseHw ==
  [p \in 1..LifePlanes |->
     HwPlane(IF p = 1 THEN "PRIMARY" ELSE "OVERLAY", 1,
             <<ZposProp(p - 1), AlphaProp,
               KProp("IN_FENCE_FD", "SIGNED_RANGE", <<-1, INT_MAX>>, -1),
               KProp("FB_DAMAGE_CLIPS", "BLOB", <<>>, 0)>>)]

\* framebuffers 1 and 2 are alike, framebuffer 3 has another format
ReuseFbs == <<<<FbInfo(1)>>, <<FbInfo(1)>>, <<FbInfo(2)>>>>

\* the values the client gives to the properties of the layer; for ALPHA
\* the two edges and two values between them
ReuseProps ==
  ({"FB_ID"} \X (0..Len(ReuseFbs)))
    \cup ({"ALPHA"} \X {0, 16384, 32768, ALPHA_OPAQUE})
    \cup ({"IN_FENCE_FD"} \X {5, 6})
    \cup ({"FB_DAMAGE_CLIPS"} \X {1, 2})
    \cup ({"CRTC_X"} \X {0, 1})

ReuseLayer ==
  <<<<"FB_ID", 1>>, <<"ALPHA", 32768>>, <<"IN_FENCE_FD", 5>>,
    <<"FB_DAMAGE_CLIPS", 1>>, <<"CRTC_X", 0>>>>

InitReuse ==
  InitEngine([hw |-> ReuseHw, fbs |-> ReuseFbs, drv |-> Driver({}, LifePlanes, {}, {})],
             LayersBuild(
               liftoff_rpi_device_register_planes(NewEngine(ReuseHw), [hw |-> ReuseHw], 1),
               <<1>>, <<ReuseLayer>>, 1))

NextReuse ==
  \/ \E pv \in ReuseProps : ClientActive /\ LayerPropertySet(1, pv[1], pv[2])
  \/ ClientActive /\ FbRecreate(1, FbInfo(2))
  \/ Apply(1, EmptyReq)

SpecReuse == InitReuse /\ [][NextReuse]_vars

--------------------------------------------------------------------------
(* The exhaustive reference of the search: every mapping of the planes to  *)
(* distinct layers of the output, judged by the rules of the search.       *)

\* the mappings of n planes to layers of Ls, 0 for an empty plane
Mappings(n, Ls) ==
  {m \in [1..n -> Ls \cup {NULL}] :
     \A i, j \in 1..n : i # j /\ m[i] # NULL => m[i] # m[j]}

\* the step the search holds once the planes 1..p took m[1..p]
RECURSIVE MappingStep(_, _, _, _)
MappingStep(C, L, m, p) ==
  IF p = 0 THEN FirstStep
  ELSE plane_step_init_next(C, L, MappingStep(C, L, m, p - 1), m[p])

\* the plane configuration of the prefix m[1..p]: later planes are off
PrefixConfig(C, L, m, p) ==
  [i \in 1..C.planes_len |->
     IF C.planes[i].layer # NULL THEN KernelPlaneState(C.planes[i], C.outputs, L)
     ELSE IF i <= p /\ m[i] # NULL
     THEN [crtc |-> C.output.crtc_id, fb |-> layer_property_value(L[m[i]], "FB_ID")]
     ELSE Disabled]

\* plane p may take layer m[p] after m[1..p-1]
MappingStepOk(C, L, m, p) ==
  LET plane == C.planes[p]
      layer == L[m[p]]
  IN  /\ plane.layer = NULL
      /\ BitSet(plane.possible_crtcs, C.output.crtc_index)
      /\ layer_visible_get(layer)
      /\ layer_plane_compatible_get(C, L, MappingStep(C, L, m, p - 1), m[p], plane)
      /\ plane_apply(plane, <<layer>>, C.output.crtc_id, EmptyReq).ret = OK
      /\ ~layer.force_comp
      /\ plane_check_layer_fb(plane, layer)
      /\ drmModeAtomicCommit(C.drv, C.planes, PrefixConfig(C, L, m, p)) = OK

\* m is a valid terminal state
MappingValid(C, L, m) ==
  /\ \A p \in 1..C.planes_len : m[p] # NULL => MappingStepOk(C, L, m, p)
  /\ alloc_valid_get(C, MappingStep(C, L, m, C.planes_len))

MappingScore(C, m) ==
  Cardinality({p \in 1..C.planes_len : m[p] # NULL /\ m[p] # C.output.comp_layer})

\* the non-composition layers of output o that have a plane
BoundLayers(o) ==
  {l \in Range(outputs[o].layers) :
     layers[l].plane # NULL /\ l # outputs[o].comp_layer}

\* the visible non-composition layers of output o
VisibleLayers(o) ==
  {l \in Range(outputs[o].layers) :
     layer_visible_get(layers[l]) /\ l # outputs[o].comp_layer}

ApplyOk(o) == res.op = "apply" /\ res.output = o /\ res.ret = OK

SearchOk(o) == ApplyOk(o) /\ res.path = "done"

\* C1: when apply returned ok after the search, no valid mapping of the
\* planes to the output's layers binds more non-composition layers than the
\* installed one
ScoreMaximized ==
  \A o \in OutputIds :
    SearchOk(o) =>
      LET E == apply_unbind(Engine, o)
          C == SearchContext(E, Kernel, o)
      IN  \A m \in Mappings(C.planes_len, Range(outputs[o].layers)) :
            MappingValid(C, E.layers, m) =>
              MappingScore(C, m) <= Cardinality(BoundLayers(o))

\* a search that had to leave a layer out although the driver rejected some
\* pair, and still bound two layers
ScoreMaximizedWitness ==
  /\ SearchOk(1)
  /\ drv.bad # {}
  /\ Cardinality(BoundLayers(1)) = 2
  /\ Cardinality(VisibleLayers(1)) = 3
  /\ Len(dev.planes) = 3

--------------------------------------------------------------------------
(* Bindings *)

PlaneOf(id) == CHOOSE i \in 1..Len(dev.planes) : dev.planes[i].id = id

HasPlane(id) == \E i \in 1..Len(dev.planes) : dev.planes[i].id = id

\* C2: in every state the bindings are one-to-one and mutual, and none
\* refers to a destroyed plane or layer: a plane's layer is a live layer
\* whose plane is that plane, a layer's plane is a registered plane whose
\* layer is that layer, and no two planes hold the same layer
BindingsConsistent ==
  /\ \A i \in 1..Len(dev.planes) :
       dev.planes[i].layer # NULL =>
         /\ dev.planes[i].layer \in DOMAIN layers
         /\ layers[dev.planes[i].layer].plane = dev.planes[i].id
  /\ \A l \in DOMAIN layers :
       layers[l].plane # NULL =>
         /\ HasPlane(layers[l].plane)
         /\ dev.planes[PlaneOf(layers[l].plane)].layer = l
  /\ \A i, j \in 1..Len(dev.planes) :
       i # j /\ dev.planes[i].layer # NULL =>
         dev.planes[i].layer # dev.planes[j].layer

\* between two applies a layer has a plane, a layer that no apply has seen
\* has none, and a plane is free
BindingsConsistentWitness ==
  /\ res.op = ""
  /\ \E l \in DOMAIN layers : layers[l].plane # NULL
  /\ \E l \in DOMAIN layers : layers[l].plane = NULL /\ layers[l].pending_priority = 0
  /\ \E i \in 1..Len(dev.planes) : dev.planes[i].layer = NULL
  /\ dev.page_flip_counter > 0

--------------------------------------------------------------------------
(* What an apply that returned ok leaves *)

\* the composition layer of output o is bound to a PRIMARY plane
CompOnPrimary(o) ==
  /\ outputs[o].comp_layer # NULL
  /\ layers[outputs[o].comp_layer].plane # NULL
  /\ dev.planes[PlaneOf(layers[outputs[o].comp_layer].plane)].type = "PRIMARY"

AllBound(o) == \A l \in VisibleLayers(o) : layers[l].plane # NULL

NoneBound(o) == \A l \in Range(outputs[o].layers) : layers[l].plane = NULL

PlaneZpos(l) == dev.planes[PlaneOf(layers[l].plane)].zpos

\* C4: after an apply that returned ok, of two visible intersecting layers
\* of the output that both carry ZPOS and both have a plane, the one with
\* the strictly greater ZPOS has a plane whose zpos is not lower
ZposPreserved ==
  \A o \in OutputIds :
    ApplyOk(o) =>
      \A a, b \in Range(outputs[o].layers) :
        /\ layer_visible_get(layers[a]) /\ layer_visible_get(layers[b])
        /\ layer_intersects(layers[a], layers[b])
        /\ layer_has_property(layers[a], "ZPOS")
        /\ layer_has_property(layers[b], "ZPOS")
        /\ layers[a].plane # NULL /\ layers[b].plane # NULL
        /\ layer_property_value(layers[a], "ZPOS") > layer_property_value(layers[b], "ZPOS")
        => PlaneZpos(a) >= PlaneZpos(b)

\* C7: in every state the layer a plane holds belongs to an output whose
\* CRTC index is a bit of the plane's possible_crtcs
CrtcMask ==
  \A i \in 1..Len(dev.planes) :
    dev.planes[i].layer # NULL =>
      BitSet(dev.planes[i].possible_crtcs,
             outputs[layers[dev.planes[i].layer].output].crtc_index)

\* both outputs got planes although a plane serves only one of the CRTCs,
\* and a visible layer stayed without a plane
CrtcMaskWitness ==
  /\ \E i \in 1..Len(dev.planes) : dev.planes[i].possible_crtcs # 3
  /\ \A o \in OutputIds : \E l \in Range(outputs[o].layers) : layers[l].plane # NULL
  /\ \E o \in OutputIds : ~AllBound(o)

\* C6 as claimed: in every state the composition layer of an output, when
\* it has a plane, has a PRIMARY plane
CompOnlyOnPrimary ==
  \A o \in OutputIds :
    outputs[o].comp_layer # NULL /\ layers[outputs[o].comp_layer].plane # NULL
      => CompOnPrimary(o)

\* C6: in every state where the output's layers_changed flag is false, and
\* so after every apply that returned ok, the composition layer of the
\* output, when it has a plane, has a PRIMARY plane
CompOnlyOnPrimaryClean ==
  \A o \in OutputIds :
    /\ ApplyOk(o) \/ ~outputs[o].layers_changed
    /\ outputs[o].comp_layer # NULL
    /\ layers[outputs[o].comp_layer].plane # NULL
    => CompOnPrimary(o)

\* an apply gave the composition layer the primary plane and another layer
\* the overlay
CompOnlyOnPrimaryWitness ==
  /\ ApplyOk(1)
  /\ CompOnPrimary(1)
  /\ \E i \in 1..Len(dev.planes) :
       dev.planes[i].type = "OVERLAY" /\ dev.planes[i].layer # NULL

--------------------------------------------------------------------------
(* The reuse of the previous allocation *)

\* the layer of every plane and the plane of every layer
Bindings ==
  <<[i \in 1..Len(dev.planes) |-> <<dev.planes[i].id, dev.planes[i].layer>>],
    [l \in DOMAIN layers |-> layers[l].plane]>>

\* C9: an apply that returns through the reuse path leaves the layer of
\* every plane and the plane of every layer as they were
ReuseKeepsBindings ==
  [][res'.op = "apply" /\ res'.path = "reuse" => Bindings' = Bindings]_vars

\* a reuse with a layer on a plane
ReuseKeepsBindingsWitness ==
  /\ res.op = "apply"
  /\ res.path = "reuse"
  /\ \E l \in DOMAIN layers : layers[l].plane # NULL

\* C10: an apply on an output right after an apply on it that returned ok
\* returns ok through the reuse path with the same bindings
SecondApplyReuses ==
  [][\A o \in OutputIds :
       ApplyOk(o) /\ res'.op = "apply" /\ res'.output = o
         => res'.ret = OK /\ res'.path = "reuse" /\ Bindings' = Bindings]_vars

\* C5: after an apply that returned ok every layer of the output is clean:
\* each property's previous value is its value, prev_fb_info is fb_info,
\* changed is false, and the output's layers_changed is false
LayersClean ==
  \A o \in OutputIds :
    ApplyOk(o) =>
      /\ ~outputs[o].layers_changed
      /\ \A l \in Range(outputs[o].layers) :
           /\ ~layers[l].changed
           /\ layers[l].prev_fb_info = layers[l].fb_info
           /\ \A i \in 1..Len(layers[l].props) :
                layers[l].props[i].prev_value = layers[l].props[i].value

\* the engine at the guard of reuse_prev_alloc in an apply on output o
AtGuard(o) == layers_fb_info_update(layers_priority_update(Engine), Kernel, o)

SameFbInfo(layer) ==
  /\ layer.fb_info.width = layer.prev_fb_info.width
  /\ layer.fb_info.height = layer.prev_fb_info.height
  /\ layer.fb_info.pixel_format = layer.prev_fb_info.pixel_format
  /\ layer.fb_info.modifier = layer.prev_fb_info.modifier

\* a change of the property that the claim calls harmless
Harmless(layer, prop) ==
  \/ prop.index \in {"IN_FENCE_FD", "FB_DAMAGE_CLIPS"}
  \/ /\ prop.index = "ALPHA"
     /\ {prop.value, prop.prev_value} \cap {0, ALPHA_OPAQUE} = {}
  \/ /\ prop.index = "FB_ID"
     /\ prop.value # 0 /\ prop.prev_value # 0
     /\ SameFbInfo(layer)

\* C8 as claimed: an apply attempts the reuse exactly when layers_changed
\* is false and every layer is not changed and has only properties that
\* are unchanged since the last clean or changed harmlessly
ReuseGuardIff ==
  [][\A o \in OutputIds :
       res'.op = "apply" /\ res'.output = o =>
         (res'.attempted <=>
            /\ ~AtGuard(o).outputs[o].layers_changed
            /\ \A l \in Range(outputs[o].layers) :
                 /\ ~AtGuard(o).layers[l].changed
                 /\ \A i \in 1..Len(layers[l].props) :
                      LET prop == AtGuard(o).layers[l].props[i]
                      IN  \/ prop.value = prop.prev_value
                          \/ Harmless(AtGuard(o).layers[l], prop))]_vars

\* C8: an apply attempts the reuse exactly when layers_changed is false and
\* every layer is not changed, has only properties other than FB_ID that
\* are unchanged since the last clean or changed harmlessly, and has an
\* FB_ID, if any, that was and is zero, or was and is nonzero with the
\* cached width, height, pixel_format and modifier of the previous snapshot
\* (also when the value of FB_ID is unchanged)
ReuseGuardIffCached ==
  [][\A o \in OutputIds :
       res'.op = "apply" /\ res'.output = o =>
         (res'.attempted <=>
            /\ ~AtGuard(o).outputs[o].layers_changed
            /\ \A l \in Range(outputs[o].layers) :
                 /\ ~AtGuard(o).layers[l].changed
                 /\ \A i \in 1..Len(layers[l].props) :
                      LET prop == AtGuard(o).layers[l].props[i]
                      IN  IF prop.index = "FB_ID"
                          THEN \/ prop.value = 0 /\ prop.prev_value = 0
                               \/ Harmless(AtGuard(o).layers[l], prop)
                          ELSE \/ prop.value = prop.prev_value
                               \/ Harmless(AtGuard(o).layers[l], prop))]_vars

\* a reuse was attempted although ALPHA and FB_ID changed since the clean
ReuseGuardIffCachedWitness ==
  /\ res.op = "apply"
  /\ res.attempted
  /\ \E l \in DOMAIN layers :
       /\ layer_property_value(layers[l], "ALPHA") = 16384
       /\ layer_property_get(layers[l], "ALPHA")[1].prev_value = 32768
       /\ layer_property_value(layers[l], "FB_ID") = 2
       /\ layer_property_get(layers[l], "FB_ID")[1].prev_value = 1

--------------------------------------------------------------------------
(* SpecClips: the reuse fast path.  The client applies, gives new damage   *)
(* clips to layers that already carry FB_DAMAGE_CLIPS, and applies again.  *)

\* planes with and without the FB_DAMAGE_CLIPS property; one or two layers
\* with damage clips, with or without a framebuffer; drivers that accept
\* everything (one after an EINTR and an EAGAIN), that want the primary
\* plane of the first CRTC lit, or that reject framebuffer 2 on plane 2
ScenariosF ==
  {[hw |-> h, drv |-> d, comp |-> NULL,
    outs |-> [l \in DOMAIN f |-> 1],
    descs |-> [l \in DOMAIN f |->
                 LayerDesc(IF f[l] THEN l ELSE 0, 0, <<>>)
                   \o <<<<"FB_DAMAGE_CLIPS", 1>>>>]] :
     h \in {ReuseHw, PlainHw(LifePlanes)},
     d \in {Driver({}, LifePlanes, {}, {}),
            [Driver({}, LifePlanes, {}, {}) EXCEPT !.intr = <<"EINTR", "EAGAIN">>],
            Driver({}, LifePlanes, {CrtcTable[1]}, {}),
            Driver({<<2, 2>>}, LifePlanes, {}, {})},
     f \in UNION {[1..m -> BOOLEAN] : m \in 1..LifeLayers}}

InitClips ==
  \E sc \in ScenariosF : InitEngine(ScenarioKernel(sc), ScenarioEngine(sc))

\* liftoff_rpi_layer_property_set(l, FB_DAMAGE_CLIPS, value) by a client
\* whose last apply on the layer's output returned ok and that has changed
\* nothing but damage clips since
DamageClipsSet(l, value) ==
  /\ l \in DOMAIN layers
  /\ \/ ApplyOk(layers[l].output)
     \/ res.op = "layer_property_set" /\ res.output = layers[l].output
  /\ SetEngine(liftoff_rpi_layer_property_set(Engine, l, "FB_DAMAGE_CLIPS", value).E)
  /\ req' = EmptyReq
  /\ res' = [NoRes EXCEPT !.op = "layer_property_set",
                          !.output = layers[l].output,
                          !.path = "FB_DAMAGE_CLIPS"]
  /\ UNCHANGED <<hw, fbs, drv>>

NextClips ==
  \/ \E l \in LayerIds, value \in 1..2 : DamageClipsSet(l, value)
  \/ Apply(1, EmptyReq)

SpecClips == InitClips /\ [][NextClips]_vars

\* the driver's answer to the configuration the bindings describe
BoundConfigAnswer ==
  test_commit_retry(
    Append(drv.intr,
           drmModeAtomicCommit(
             drv, dev.planes,
             [i \in 1..Len(dev.planes) |->
                KernelPlaneState(dev.planes[i], outputs, layers)])),
    1)

--------------------------------------------------------------------------
(* SpecErr: applies that meet refusals and failures.  The primary plane    *)
(* has no alpha property, the overlay has one; the driver refuses a pair   *)
(* of plane and framebuffer with EINVAL, ERANGE or ENOSPC and fails hard   *)
(* on another; the caller's request is large or too small for the disable  *)
(* loop, for the search or for the staging of the chosen allocation.       *)

ErrHw ==
  [p \in 1..LifePlanes |->
     IF p = 1 THEN HwPlane("PRIMARY", 1, <<>>)
     ELSE HwPlane("OVERLAY", 1, <<AlphaProp>>)]

\* one or two layers with framebuffer 1 or 2, with or without a translucent
\* ALPHA
ScenariosE ==
  {[hw |-> ErrHw,
    drv |-> [Driver(bad, LifePlanes, {}, fatal)
               EXCEPT !.code = code,
                      !.intr = IF code = "ENOSPC" THEN <<"EINTR", "EAGAIN">> ELSE <<>>],
    comp |-> NULL,
    outs |-> [l \in DOMAIN d |-> 1],
    descs |-> [l \in DOMAIN d |->
                 LayerDesc(d[l].fb, 0, <<>>)
                   \o (IF d[l].alpha THEN <<<<"ALPHA", 32768>>>> ELSE <<>>)]] :
     bad \in {{}, {<<1, 1>>}, {<<2, 2>>}},
     fatal \in {{}, {<<2, 2>>}, {<<1, 2>>}},
     code \in {"EINVAL", "ERANGE", "ENOSPC"},
     d \in UNION {[1..m -> [fb : 1..2, alpha : BOOLEAN]] : m \in 1..LifeLayers}}

InitErr ==
  \E sc \in ScenariosE : InitEngine(ScenarioKernel(sc), ScenarioEngine(sc))

\* the room of the caller's request: none for the disable loop, none for a
\* layer in the search, none for the staging after a search that bound one
\* layer, or plenty
ReqCaps == {2 * LifePlanes - 1, 2 * LifePlanes + 4, 2 * LifePlanes + 6, MaxReq}

NextErr ==
  \/ \E l \in LayerIds, fb \in 1..2 : ClientActive /\ LayerPropertySet(l, "FB_ID", fb)
  \/ \E c \in ReqCaps : Apply(1, [items |-> <<>>, cap |-> c])

SpecErr == InitErr /\ [][NextErr]_vars

--------------------------------------------------------------------------
(* Layers the search passes over: a primary plane and an overlay with an   *)
(* IN_FORMATS blob, framebuffers 1 and 2 of pixel formats 1 and 2 with     *)
(* DRM_MODE_FB_MODIFIERS set, and a caller that has                        *)
(* put settings of its own in the request before the apply.                *)

\* the IN_FORMATS blobs of the overlay plane: format 1 with modifier 0, or
\* formats 1 and 2 with modifier 0, the modifier listed in two entries whose
\* windows start at format 0 and at format 1
SkipBlobs ==
  {[formats |-> <<1>>,
    modifiers |-> <<[modifier |-> 0, offset |-> 0, formats |-> 1]>>],
   [formats |-> <<1, 2>>,
    modifiers |-> <<[modifier |-> 0, offset |-> 0, formats |-> 1],
                    [modifier |-> 0, offset |-> 1, formats |-> 1]>>]}

\* the driver accepts everything, refuses every framebuffer on the primary
\* plane, or fails hard on framebuffer 2 on the overlay; the blob of two
\* entries comes with the driver that accepts everything
InitSkip ==
  \E bad \in {{}, {<<1, 1>>, <<1, 2>>}}, fatal \in {{}, {<<2, 2>>}} :
  \E d \in UNION {[1..m -> 1..2] : m \in 1..LifeLayers} :
  \E blob \in SkipBlobs :
    /\ Len(blob.modifiers) > 1 => bad = {} /\ fatal = {}
    /\ With([p \in 1..LifePlanes |->
               IF p = 1 THEN HwPlane("PRIMARY", 1, <<>>)
               ELSE [HwPlane("OVERLAY", 1, <<KProp("IN_FORMATS", "BLOB", <<>>, 40)>>)
                       EXCEPT !.in_formats = <<blob>>]], LAMBDA h :
       With([hw |-> h, drv |-> Driver(bad, LifePlanes, {}, fatal), comp |-> NULL,
             outs |-> [l \in DOMAIN d |-> 1],
             descs |-> [l \in DOMAIN d |-> LayerDesc(d[l], 0, <<>>)]], LAMBDA sc :
         InitEngine([hw |-> h,
                     fbs |-> [f \in FbIds |-> <<[FbInfo(f) EXCEPT !.flags = 2]>>],
                     drv |-> sc.drv],
                    ScenarioEngine(sc))))

\* the object of the caller's own settings: the CRTC of output 1
CallerObj == CrtcTable[1]

\* the caller's request before the apply: empty, or its own settings
CallerReqs ==
  {[items |-> [i \in 1..n |-> [obj |-> CallerObj, prop |-> "ACTIVE", value |-> i]],
    cap |-> MaxReq] : n \in 0..2}

NextSkip ==
  \/ \E l \in LayerIds, a \in {0, 32768, ALPHA_OPAQUE} :
       ClientActive /\ LayerPropertySet(l, "ALPHA", a)
  \/ \E l \in LayerIds : ClientActive /\ LayerFbCompositedSet(l)
  \/ \E r \in CallerReqs : Apply(1, r)

SpecSkip == InitSkip /\ [][NextSkip]_vars

--------------------------------------------------------------------------
(* Two outputs that share the planes: a primary plane and an overlay that  *)
(* both reach both CRTCs, one or two layers on either output, and a driver *)
(* that accepts everything or fails hard on framebuffer 2 on the overlay.  *)

InitTwo ==
  \E fatal \in {{}, {<<2, 2>>}} :
  \E o \in UNION {[1..m -> OutputIds] : m \in 1..LifeLayers} :
    With([hw |-> [p \in 1..LifePlanes |->
                    HwPlane(IF p = 1 THEN "PRIMARY" ELSE "OVERLAY", 3, <<>>)],
          drv |-> Driver({}, LifePlanes, {}, fatal), comp |-> NULL,
          outs |-> o,
          descs |-> [l \in DOMAIN o |-> LayerDesc(l, 0, <<>>)]], LAMBDA sc :
      InitEngine(ScenarioKernel(sc), ScenarioEngine(sc)))

\* the caller's request has room for everything or for the disabling of
\* one plane only
NextTwo ==
  \/ \E l \in LayerIds, fb \in FbIds :
       dev.page_flip_counter < TwoApply /\ LayerPropertySet(l, "FB_ID", fb)
  \/ \E o \in OutputIds, c \in {2, MaxReq} :
       /\ dev.page_flip_counter < TwoApply
       /\ ApplyReturn(o, liftoff_rpi_output_apply(Engine, Kernel, o,
                                                  [items |-> <<>>, cap |-> c]))
       /\ UNCHANGED <<hw, fbs, drv>>

SpecTwo == InitTwo /\ [][NextTwo]_vars

--------------------------------------------------------------------------
(* ------------------------------------------------------------------ *)
(* A whole priority period                                             *)
(* ------------------------------------------------------------------ *)

\* the applies of a period around which the clients change framebuffers
PeriodEdges == {0, 1, LIFTOFF_RPI_PRIORITY_PERIOD - 1}

\* the apply that ended the period has returned
PeriodElapsed == res.op = "apply" /\ dev.page_flip_counter = 0

\* one period of applies, on either output around the edges of the period and
\* on the first output in between, until the page-flip counter has wrapped
NextPeriod ==
  \/ \E l \in LayerIds, fb \in FbIds :
       /\ dev.page_flip_counter \in PeriodEdges /\ ~PeriodElapsed
       /\ LayerPropertySet(l, "FB_ID", fb)
  \/ \E o \in OutputIds :
       /\ o = 1 \/ dev.page_flip_counter \in PeriodEdges
       /\ ~PeriodElapsed
       /\ ApplyReturn(o, liftoff_rpi_output_apply(Engine, Kernel, o, EmptyReq))
       /\ UNCHANGED <<hw, fbs, drv>>

SpecPeriod == InitTwo /\ [][NextPeriod]_vars

(* Errors of liftoff_rpi_output_apply *)

\* the answers of a test commit that only refuse a branch of the search
BranchRejections == {"EINVAL", "ERANGE", "ENOSPC"}

\* the last apply on output o ran the search, and the search staged a layer
\* on a plane (the plane is among the layer's candidate planes) with a
\* framebuffer the driver fails hard on: the test commit of that branch
\* returned the driver's hard error
SearchMetHardError(o) ==
  /\ res.op = "apply" /\ res.output = o
  /\ res.path \in {"search", "restage", "done"}
  /\ \E l \in Range(outputs[o].layers) :
       \E k \in 1..Len(layers[l].candidate_planes) :
         /\ layers[l].candidate_planes[k] # 0
         /\ layer_fb_get(layers[l])
         /\ <<layers[l].candidate_planes[k], layer_property_value(layers[l], "FB_ID")>>
              \in drv.fatal

\* an apply returns the hard error that a test commit of its search met
SearchErrorReturned ==
  \A o \in OutputIds : SearchMetHardError(o) => res.ret = "EACCES"

\* C12 as claimed: an apply returns the hard error that a test commit of
\* its search met, and the hard error that the test commit of the reuse met
\* (the reuse got past its guard, the request had room for the staging and
\* the driver fails hard on the bound configuration)
HardErrorsReturned ==
  [][\A o \in OutputIds :
       res'.op = "apply" /\ res'.output = o =>
         /\ SearchMetHardError(o)' => res'.ret = "EACCES"
         /\ /\ res'.attempted
            /\ req'.cap = MaxReq
            /\ BoundConfigAnswer \notin BranchRejections \cup {OK}
            => res'.ret = BoundConfigAnswer]_vars

\* an apply returned the hard error of its search
SearchErrorReturnedWitness ==
  /\ SearchMetHardError(1)
  /\ res.path = "search"
  /\ res.ret = "EACCES"
  /\ dev.test_commit_counter > 1

\* what an apply on output o that ran its search to the end leaves in an
\* empty request: the planes it disabled, then the staging of every plane
StagedRequest(o) ==
  apply_current(Engine, apply_disable_loop(apply_unbind(Engine, o), EmptyReq, 1).req).req

\* C13: an apply that ran the search with room in the request and met no
\* hard error returns ok, whatever EINVAL, ERANGE or ENOSPC the test commits
\* answered and whatever layer the planes could not take; the request holds
\* nothing of the refused branches, and no valid mapping binds more layers
\* than the installed one (the search went on with the next layer and with
\* the empty plane)
RejectionsNeverSurface ==
  \A o \in OutputIds :
    /\ res.op = "apply" /\ res.output = o
    /\ res.path # "reuse"
    /\ req.cap = MaxReq
    /\ ~SearchMetHardError(o)
    => /\ res.ret = OK
       /\ req = StagedRequest(o)
       /\ With(apply_unbind(Engine, o), LAMBDA E :
          With(SearchContext(E, Kernel, o), LAMBDA C :
            \A m \in Mappings(C.planes_len, Range(outputs[o].layers)) :
              MappingValid(C, E.layers, m) =>
                MappingScore(C, m) <= Cardinality(BoundLayers(o))))

\* the driver answered ERANGE to a layer on the primary plane and the layer
\* took the overlay; the primary plane could not take the translucent layer
RejectionsNeverSurfaceWitness ==
  /\ SearchOk(1)
  /\ drv.code = "ERANGE"
  /\ \E l \in DOMAIN layers :
       /\ layers[l].plane = 2
       /\ 1 \in Range(layers[l].candidate_planes)
       /\ <<1, layer_property_value(layers[l], "FB_ID")>> \in drv.bad
  /\ \E l \in DOMAIN layers :
       /\ layer_has_property(layers[l], "ALPHA")
       /\ 1 \notin Range(layers[l].candidate_planes)
       /\ 2 \in Range(layers[l].candidate_planes)
       /\ layers[l].plane = NULL

\* the layer of output o that each plane holds, 0 for none
OutputMapping(o) ==
  [i \in 1..Len(dev.planes) |->
     IF dev.planes[i].layer # NULL /\ layers[dev.planes[i].layer].output = o
     THEN dev.planes[i].layer ELSE NULL]

\* the bindings of output o are a best mapping: valid by the rules of the
\* search, with the score the search recorded, and no valid mapping binds
\* more; with no valid mapping found nothing is bound
BestInstalled(o) ==
  With(apply_unbind(Engine, o), LAMBDA E :
  With(SearchContext(E, Kernel, o), LAMBDA C :
    /\ \A l \in Range(outputs[o].layers) :
         layers[l].plane # NULL => OutputMapping(o)[PlaneOf(layers[l].plane)] = l
    /\ IF res.best_score = -1 THEN NoneBound(o)
       ELSE /\ MappingValid(C, E.layers, OutputMapping(o))
            /\ MappingScore(C, OutputMapping(o)) = res.best_score
    /\ \A m \in Mappings(C.planes_len, Range(outputs[o].layers)) :
         MappingValid(C, E.layers, m) => MappingScore(C, m) <= res.best_score))

\* what layers_mark_clean writes, for the layers of output o
CleanMarks(o) ==
  <<outputs[o].layers_changed,
    [l \in Range(outputs[o].layers) |->
       <<layers[l].changed, layers[l].prev_fb_info,
         [i \in 1..Len(layers[l].props) |-> layers[l].props[i].prev_value]>>]>>

\* C14: an apply that fails while it disables the free planes or during
\* the search leaves no layer of the output on a plane and no plane with a
\* layer of the output; an apply that fails when it stages the allocation
\* the search chose leaves the best mapping installed and the layers not
\* marked clean
FailedApplyBindings ==
  /\ [](\A o \in OutputIds :
          res.op = "apply" /\ res.output = o /\ res.ret # OK =>
            /\ res.path \in {"disable", "search", "restage"}
            /\ res.path \in {"disable", "search"} =>
                 /\ NoneBound(o)
                 /\ OutputMapping(o) = [i \in 1..Len(dev.planes) |-> NULL]
            /\ res.path = "restage" => BestInstalled(o))
  /\ [][\A o \in OutputIds :
          /\ res'.op = "apply" /\ res'.output = o /\ res'.ret # OK
          /\ res'.path = "restage"
          => CleanMarks(o)' = CleanMarks(o)]_vars

\* the staging after the search failed for want of room in the request:
\* the layer has its plane and is still to be marked clean
FailedApplyBindingsWitness ==
  /\ res.op = "apply"
  /\ res.path = "restage"
  /\ res.ret = "ENOMEM"
  /\ res.best_score = 1
  /\ outputs[1].layers_changed
  /\ \E l \in DOMAIN layers :
       layers[l].plane # NULL /\ layers[l].props[1].prev_value # layers[l].props[1].value

\* the second apply failed in its search and the layers lost the planes the
\* first apply gave them
SearchFailureWitness ==
  /\ res.op = "apply"
  /\ res.path = "search"
  /\ res.ret = "EACCES"
  /\ dev.page_flip_counter = 2
  /\ NoneBound(1)
  /\ \A l \in DOMAIN layers :
       /\ layers[l].props[1].prev_value # 0
       /\ layers[l].props[1].prev_value # layers[l].props[1].value

--------------------------------------------------------------------------
(* SpecStage: plane_apply on its own.  The client gives a layer with a     *)
(* framebuffer up to MaxLayerProps properties, inside and outside the domains *)
(* of the planes' properties, and the layer is staged on a plane after the *)
(* plane was disabled in the request, as the search does it.               *)

MaxLayerProps == 3   \* properties of the layer of SpecStage

\* a primary plane with every optional property, a bare overlay, and an
\* overlay whose alpha is immutable and that cannot rotate
StageHw ==
  <<HwPlane("PRIMARY", 1,
            <<ZposProp(0), AlphaProp,
              KProp("rotation", "BITMASK", <<0, 1, 2, 3, 4, 5>>, 1),
              KProp("pixel blend mode", "ENUM", <<0, 1, 2>>, 0),
              KProp("SCALING FILTER", "ENUM", <<0, 1>>, 0),
              KProp("FB_DAMAGE_CLIPS", "BLOB", <<>>, 0),
              KProp("IN_FENCE_FD", "SIGNED_RANGE", <<-1, INT_MAX>>, -1)>>),
    HwPlane("OVERLAY", 1, <<>>),
    HwPlane("OVERLAY", 1,
            <<[AlphaProp EXCEPT !.immutable = TRUE],
              KProp("rotation", "BITMASK", <<0>>, 1)>>)>>

\* the values the client gives: the tolerated default of each optional
\* property, a value of its domain and a value outside it
StageProps ==
  ({"ALPHA"} \X {ALPHA_OPAQUE, 32768, 70000})
    \cup ({"ROTATION"} \X {1, 2, 64})
    \cup ({"SCALING_FILTER"} \X {0, 1, 5})
    \cup ({"PIXEL_BLEND_MODE"} \X {0, 1, 7})
    \cup ({"FB_DAMAGE_CLIPS"} \X {9})
    \cup ({"IN_FENCE_FD"} \X {3, -5})
    \cup ({"ZPOS"} \X {1})
    \cup ({"SRC_X"} \X {0})

InitStage ==
  InitEngine([hw |-> StageHw, fbs |-> ReuseFbs, drv |-> Driver({}, MaxPlanes, {}, {})],
             LayersBuild(
               liftoff_rpi_device_register_planes(NewEngine(StageHw), [hw |-> StageHw], 1),
               <<1>>, <<<<<<"FB_ID", 1>>>>>>, 1))

\* the caller's view of a plane_apply that returned pa
PlaneApplyReturn(pa) ==
  /\ req' = pa.req
  /\ res' = [NoRes EXCEPT !.op = "plane_apply", !.ret = pa.ret]
  /\ UNCHANGED <<hw, fbs, drv, dev, outputs, layers>>

\* plane_apply(plane, layer, req) on a request that holds the disabling of
\* the plane
PlaneApply(i, l) ==
  /\ i \in 1..Len(dev.planes)
  /\ l \in DOMAIN layers
  /\ PlaneApplyReturn(
       plane_apply(dev.planes[i], <<layers[l]>>, outputs[layers[l].output].crtc_id,
                   plane_apply(dev.planes[i], <<>>, 0, EmptyReq).req))

NextStage ==
  \/ \E pv \in StageProps :
       /\ layer_has_property(layers[1], pv[1]) \/ Len(layers[1].props) < MaxLayerProps
       /\ LayerPropertySet(1, pv[1], pv[2])
  \/ \E i \in PlaneIds : PlaneApply(i, 1)

SpecStage == InitStage /\ [][NextStage]_vars

--------------------------------------------------------------------------
(* The plane applier *)

\* the plane the last plane_apply staged on: the request begins with the
\* disabling of that plane
StagedPlane == dev.planes[PlaneOf(req.items[1].obj)]

\* the request as plane_apply found it
StageEntry == plane_apply(StagedPlane, <<>>, 0, EmptyReq).req

\* value is in the DRM domain of the plane property pprop
InDomain(pprop, value) ==
  CASE pprop.kind = "RANGE" -> plane_prop_range_check(pprop, value) = OK
    [] pprop.kind = "SIGNED_RANGE" -> plane_prop_signed_range_check(pprop, value) = OK
    [] pprop.kind = "ENUM" -> plane_prop_enum_check(pprop, value) = OK
    [] pprop.kind = "BITMASK" -> plane_prop_bitmask_check(pprop, value) = OK
    [] OTHER -> TRUE

\* the plane has the property and may take the value
Settable(plane, prop, value) ==
  With(plane_property_get(plane, prop), LAMBDA pprop :
    pprop # <<>> /\ ~pprop[1].immutable /\ InDomain(pprop[1], value))

\* C15 as claimed: staging a layer on a plane returns invalid-property and
\* adds nothing to the request when a property of the layer other than ZPOS
\* is on the plane an immutable property or has a value outside the
\* property's domain, and every value added to the request is validated
StagingValidates ==
  res.op = "plane_apply" =>
    /\ (\E i \in 1..Len(layers[1].props) :
          /\ layers[1].props[i].index # "ZPOS"
          /\ plane_property_get(StagedPlane, layers[1].props[i].index) # <<>>
          /\ ~Settable(StagedPlane, layers[1].props[i].index, layers[1].props[i].value))
       => res.ret = "EINVAL" /\ req = StageEntry
    /\ \A k \in 1..Len(req.items) :
         Settable(StagedPlane, req.items[k].prop, req.items[k].value)

\* the absence of the property is tolerated for this value
Tolerated(prop) ==
  \/ prop.index = "ALPHA" /\ prop.value = 65535
  \/ prop.index = "ROTATION" /\ prop.value = 1
  \/ prop.index = "SCALING_FILTER" /\ prop.value = 0
  \/ prop.index = "PIXEL_BLEND_MODE" /\ prop.value = 0
  \/ prop.index = "FB_DAMAGE_CLIPS"

\* the properties of the layer that the plane lacks, ZPOS aside
Missing(plane, layer) ==
  {i \in 1..Len(layer.props) :
     /\ layer.props[i].index # "ZPOS"
     /\ plane_property_get(plane, layer.props[i].index) = <<>>}

\* C16: when the plane lacks a property of the layer, plane_apply returns
\* invalid-property with the request as it found it unless the property
\* and value are ALPHA 0xFFFF, ROTATION ROTATE_0, SCALING_FILTER 0,
\* PIXEL_BLEND_MODE 0 or FB_DAMAGE_CLIPS; when every absent property is one
\* of these it returns ok and stages CRTC_ID and the properties the plane
\* has, in the layer's order.  ZPOS is never in the request and never
\* makes the call fail, whether the plane has a zpos or not
AbsenceTolerated ==
  res.op = "plane_apply" =>
    With(StagedPlane, LAMBDA plane :
      /\ IF \E i \in Missing(plane, layers[1]) : ~Tolerated(layers[1].props[i])
         THEN res.ret = "EINVAL" /\ req = StageEntry
         ELSE /\ res.ret = OK
              /\ SubSeq(req.items, 1, Len(StageEntry.items)) = StageEntry.items
              /\ req.items[Len(StageEntry.items) + 1].prop = "CRTC_ID"
              /\ [k \in 1..Len(req.items) - Len(StageEntry.items) - 1 |->
                    <<req.items[Len(StageEntry.items) + 1 + k].prop,
                      req.items[Len(StageEntry.items) + 1 + k].value>>]
                 = SelectSeq([i \in 1..Len(layers[1].props) |->
                                <<layers[1].props[i].index, layers[1].props[i].value>>],
                             LAMBDA p : p[1] # "ZPOS" /\ plane_property_get(plane, p[1]) # <<>>)
      /\ \A k \in 1..Len(req.items) : req.items[k].prop # "ZPOS")

\* a layer with ZPOS, an opaque ALPHA and a framebuffer went on the bare
\* overlay: only the framebuffer was staged
AbsenceToleratedWitness ==
  /\ res.op = "plane_apply"
  /\ res.ret = OK
  /\ StagedPlane.id = 2
  /\ layer_has_property(layers[1], "ZPOS")
  /\ layer_has_property(layers[1], "ALPHA")
  /\ layer_has_property(layers[1], "FB_ID")
  /\ Len(req.items) = Len(StageEntry.items) + 2

--------------------------------------------------------------------------
(* SpecPlanes: the client registers the planes of a device one by one, in  *)
(* any order, and destroys them.  SpecCalls: the life of a device with the *)
(* return value of each call kept.                                         *)

\* the caller's view of a call op(arg) that returned x.ret and left x.E
Called(op, arg, x) ==
  /\ SetEngine(x.E)
  /\ req' = EmptyReq
  /\ res' = [op |-> op, arg |-> arg, output |-> 0, ret |-> x.ret,
             attempted |-> FALSE, path |-> "", best_score |-> -1]
  /\ UNCHANGED <<hw, fbs, drv>>

PlaneCreateCall(id) ==
  Called("plane_create", id, liftoff_rpi_plane_create(Engine, Kernel, id))

LayerPropertySetCall(l, property, value) ==
  /\ l \in DOMAIN layers
  /\ Called("layer_property_set", <<l, property>>,
            liftoff_rpi_layer_property_set(Engine, l, property, value))

\* planes of every type, without a zpos property or with zpos 0 or 2
PlanesHw ==
  {[p \in PlaneIds |->
      HwPlane(t[p], 1, IF z[p] = <<>> THEN <<>> ELSE <<ZposProp(z[p][1])>>)] :
     t \in [PlaneIds -> {"PRIMARY", "OVERLAY", "CURSOR"}],
     z \in [PlaneIds -> {<<>>, <<0>>, <<2>>}]}

InitPlanes ==
  \E h \in PlanesHw :
    InitEngine([hw |-> h, fbs |-> ReuseFbs, drv |-> Driver({}, MaxPlanes, {}, {})],
               NewEngine(h))

NextPlanes ==
  \/ \E id \in PlaneIds : PlaneCreateCall(id)
  \/ \E i \in PlaneIds : PlaneDestroy(i)

SpecPlanes == InitPlanes /\ [][NextPlanes]_vars

NextCalls ==
  \/ \E id \in DOMAIN hw : PlaneCreateCall(id)
  \/ \E i \in 1..LifePlanes :
       /\ i \in 1..Len(dev.planes)
       /\ Called("plane_destroy", i,
                 [E |-> liftoff_rpi_plane_destroy(Engine, i), ret |-> OK])
  \/ LayerCreate(1)
  \/ \E l \in LayerIds, pv \in {<<"FB_ID", 1>>, <<"CRTC_ID", 31>>} :
       LayerPropertySetCall(l, pv[1], pv[2])
  \/ \E l \in LayerIds : LayerFbCompositedSet(l)
  \/ Apply(1, EmptyReq)

SpecCalls == Init /\ [][NextCalls]_vars

--------------------------------------------------------------------------
(* The plane list and the calls that fail *)

\* C17: in every state the plane list is ordered: every PRIMARY plane is
\* before every plane of another type, the planes of another type are in
\* non-increasing zpos order, and with a PRIMARY plane registered the first
\* plane is a PRIMARY plane
PlanesOrdered ==
  /\ \A i, j \in 1..Len(dev.planes) :
       i < j =>
         /\ dev.planes[j].type = "PRIMARY" => dev.planes[i].type = "PRIMARY"
         /\ dev.planes[i].type # "PRIMARY" /\ dev.planes[j].type # "PRIMARY"
              => dev.planes[i].zpos >= dev.planes[j].zpos
  /\ (\E i \in 1..Len(dev.planes) : dev.planes[i].type = "PRIMARY")
       => dev.planes[1].type = "PRIMARY"

\* a primary plane registered last stands before two planes of distinct
\* zpos, the higher first although its id is the greater, one of them with
\* a guessed zpos
PlanesOrderedWitness ==
  /\ res.op = "plane_create"
  /\ res.ret = OK
  /\ Len(dev.planes) = MaxPlanes
  /\ dev.planes[1].id = res.arg
  /\ dev.planes[1].type = "PRIMARY"
  /\ dev.planes[2].type # "PRIMARY"
  /\ dev.planes[2].zpos > dev.planes[3].zpos
  /\ dev.planes[2].id > dev.planes[3].id
  /\ \E i \in 2..3 : KernelPropValue(hw[dev.planes[i].id].props, "zpos") = <<>>

\* C18: liftoff_rpi_layer_property_set with CRTC_ID returns -EINVAL and
\* leaves the device, the outputs and every layer (its properties, their
\* values and previous values, changed and force_comp) as they were
CrtcIdRefused ==
  [][res'.op = "layer_property_set" /\ res'.arg[2] = "CRTC_ID"
       => res'.ret = "EINVAL" /\ UNCHANGED <<dev, outputs, layers>>]_vars

\* CRTC_ID was refused on a layer that has a plane, a framebuffer set since
\* the last apply and a forced composition
CrtcIdRefusedWitness ==
  /\ res.op = "layer_property_set"
  /\ res.arg[2] = "CRTC_ID"
  /\ res.ret = "EINVAL"
  /\ layers[res.arg[1]].plane # NULL
  /\ layers[res.arg[1]].force_comp
  /\ layers[res.arg[1]].changed
  /\ layers[res.arg[1]].props[1].prev_value # layers[res.arg[1]].props[1].value

\* C19: liftoff_rpi_plane_create with the id of a registered plane fails
\* with EEXIST and leaves the plane list and every binding as they were,
\* and no two planes of the list have the same id
DuplicateRefused ==
  /\ [](\A i, j \in 1..Len(dev.planes) :
          dev.planes[i].id = dev.planes[j].id => i = j)
  /\ [][res'.op = "plane_create" /\ HasPlane(res'.arg)
          => res'.ret = "EEXIST" /\ UNCHANGED <<dev, outputs, layers>>]_vars

\* the plane that holds a layer was to be registered again, beside another
\* plane
DuplicateRefusedWitness ==
  /\ res.op = "plane_create"
  /\ res.ret = "EEXIST"
  /\ Len(dev.planes) = LifePlanes
  /\ dev.planes[PlaneOf(res.arg)].layer # NULL

--------------------------------------------------------------------------
(* Pruning *)

\* the search liftoff_rpi_output_apply starts for output o in this state,
\* run with the upper-bound test and without it
SearchPair(o) ==
  With(layers_fb_info_update(layers_priority_update(Engine), Kernel, o), LAMBDA E1 :
  With(log_no_reuse(E1, o), LAMBDA E2 :
  With(apply_unbind(
         [E2 EXCEPT
            !.dev.test_commit_counter = 0,
            !.layers = [l \in DOMAIN E2.layers |->
                          IF l \in Range(E2.outputs[o].layers)
                          THEN layer_candidate_planes_reset(E2.layers[l])
                          ELSE E2.layers[l]]], o), LAMBDA E4 :
  With(SearchContext(E4, Kernel, o), LAMBDA C :
  With([best |-> [i \in 1..C.planes_len |-> NULL],
        best_score |-> -1,
        req |-> apply_disable_loop(E4, EmptyReq, 1).req,
        layers |-> E4.layers,
        test_commit_counter |-> E4.dev.test_commit_counter,
        ret |-> OK], LAMBDA R :
    [pruned |-> output_layers_choose(C, R, FirstStep),
     unpruned |-> output_layers_choose_noprune(C, R, FirstStep)])))))

\* C20: for every configuration of planes, layers and driver answers, the
\* search with the upper-bound pruning records the same best score and the
\* same best mapping as the search with the pruning left out
PruningMonotone ==
  \A o \in OutputIds :
    With(SearchPair(o), LAMBDA p :
      /\ p.pruned.best_score = p.unpruned.best_score
      /\ p.pruned.best = p.unpruned.best)

\* apply searched and bound two layers although the driver rejected some
\* pair; the pruning spared test commits that the full search issues
PruningMonotoneWitness ==
  /\ SearchOk(1)
  /\ drv.bad # {}
  /\ Len(dev.planes) = 3
  /\ With(SearchPair(1), LAMBDA p :
       /\ p.pruned.best_score = res.best_score
       /\ p.pruned.best_score = 2
       /\ p.pruned.best = OutputMapping(1)
       /\ p.pruned.test_commit_counter = dev.test_commit_counter
       /\ p.unpruned.test_commit_counter > p.pruned.test_commit_counter)

--------------------------------------------------------------------------
(* Plane order *)

\* the orders in which a client may register n planes
Orders(n) == {f \in [1..n -> 1..n] : \A i, j \in 1..n : i # j => f[i] # f[j]}

\* liftoff_rpi_plane_create for each plane of order, from the i-th on
RECURSIVE RegisterIn(_, _, _, _)
RegisterIn(E, K, order, i) ==
  IF i > Len(order) THEN E
  ELSE With(liftoff_rpi_plane_create(E, K, order[i]), LAMBDA c :
         IF c.ret # OK THEN E ELSE RegisterIn(c.E, K, order, i + 1))

\* the engine with the same outputs and layers whose planes were registered
\* in this order
Reregistered(E, K, order) ==
  RegisterIn([E EXCEPT !.dev.planes = <<>>], K, order, 1)

\* what the search of liftoff_rpi_output_apply records for output o from E
SearchFrom(E, K, o) ==
  With(layers_fb_info_update(layers_priority_update(E), K, o), LAMBDA E1 :
  With(log_no_reuse(E1, o), LAMBDA E2 :
  With(apply_unbind(
         [E2 EXCEPT
            !.dev.test_commit_counter = 0,
            !.layers = [l \in DOMAIN E2.layers |->
                          IF l \in Range(E2.outputs[o].layers)
                          THEN layer_candidate_planes_reset(E2.layers[l])
                          ELSE E2.layers[l]]], o), LAMBDA E4 :
  With(SearchContext(E4, K, o), LAMBDA C :
    output_layers_choose(
      C,
      [best |-> [i \in 1..C.planes_len |-> NULL],
       best_score |-> -1,
       req |-> apply_disable_loop(E4, EmptyReq, 1).req,
       layers |-> E4.layers,
       test_commit_counter |-> E4.dev.test_commit_counter,
       ret |-> OK],
      FirstStep)))))

NothingBound == \A i \in 1..Len(dev.planes) : dev.planes[i].layer = NULL

\* C21: the score that the search of an apply records is the score the
\* search records when the same planes were registered in any other order
PlaneOrderScore ==
  [][\A o \in OutputIds :
       /\ NothingBound
       /\ res'.op = "apply" /\ res'.output = o /\ res'.path = "done"
       => \A order \in Orders(Len(dev.planes)) :
            SearchFrom(Reregistered(Engine, Kernel, order), Kernel, o).best_score
              = res'.best_score]_vars

--------------------------------------------------------------------------
(* Composition only when needed *)

CompBound(o) ==
  outputs[o].comp_layer # NULL /\ layers[outputs[o].comp_layer].plane # NULL

\* C22: after an apply that returned ok through the search, a composition
\* layer that has a plane comes with a visible non-composition layer that
\* has none; and when some valid mapping places every visible
\* non-composition layer, the composition layer has no plane
CompositionRefused ==
  \A o \in OutputIds :
    SearchOk(o) =>
      /\ CompBound(o) => ~AllBound(o)
      /\ With(apply_unbind(Engine, o), LAMBDA E :
         With(SearchContext(E, Kernel, o), LAMBDA C :
           (\E m \in Mappings(C.planes_len, VisibleLayers(o)) :
              /\ MappingScore(C, m) = Cardinality(VisibleLayers(o))
              /\ \A p \in 1..C.planes_len : m[p] # NULL => MappingStepOk(C, E.layers, m, p))
           => ~CompBound(o)))

\* the output has a visible composition layer and the primary plane could
\* take it, but both other layers got a plane and it got none
CompositionRefusedWitness ==
  /\ SearchOk(1)
  /\ outputs[1].comp_layer # NULL
  /\ layer_visible_get(layers[outputs[1].comp_layer])
  /\ ~CompBound(1)
  /\ Cardinality(VisibleLayers(1)) = 2
  /\ AllBound(1)
  /\ drv.bad = {}

--------------------------------------------------------------------------
(* Stacking *)

ZposOf(l) == layer_property_value(layers[l], "ZPOS")

HasZpos(l) == layer_has_property(layers[l], "ZPOS")

OnOverlay(l) ==
  layers[l].plane # NULL /\ dev.planes[PlaneOf(layers[l].plane)].type # "PRIMARY"

\* C23: after an apply that returned ok through the search, no layer with
\* ZPOS on a plane that is not primary is intersected by a visible layer
\* of the output with a strictly greater ZPOS that has no plane
NoCompositedOver ==
  \A o \in OutputIds :
    SearchOk(o) =>
      \A l, h \in Range(outputs[o].layers) :
        /\ HasZpos(l) /\ OnOverlay(l)
        /\ HasZpos(h) /\ layer_visible_get(layers[h]) /\ layers[h].plane = NULL
        /\ layer_intersects(layers[l], layers[h])
        => ZposOf(h) <= ZposOf(l)

\* three overlapping layers on two planes: the overlay took the topmost
\* layer and a layer under it was left to composition
NoCompositedOverWitness ==
  /\ SearchOk(1)
  /\ Len(dev.planes) = 2
  /\ \E l, h, b \in Range(outputs[1].layers) :
       /\ HasZpos(l) /\ OnOverlay(l)
       /\ HasZpos(h) /\ layers[h].plane = NULL /\ layer_visible_get(layers[h])
       /\ layer_intersects(layers[l], layers[h])
       /\ ZposOf(h) < ZposOf(l)
       /\ HasZpos(b) /\ layers[b].plane # NULL /\ ~OnOverlay(b)
       /\ ZposOf(b) < ZposOf(h)

\* the planes before the p-th that hold a layer of m, are not primary and
\* hold a layer that intersects layer l
EarlierOverlays(C, L, m, p, l) ==
  {i \in 1..(p - 1) :
     /\ C.planes[i].type # "PRIMARY"
     /\ m[i] # NULL
     /\ layer_intersects(L[l], L[m[i]])}

\* layer l has a ZPOS under the last ZPOS the step recorded
UnderLast(L, step, l) ==
  /\ layer_has_property(L[l], "ZPOS")
  /\ layer_property_value(L[l], "ZPOS") < step.last_layer_zpos

\* C24 as claimed: for every partial assignment, a candidate layer under
\* the last ZPOS is rejected on plane p whenever an earlier assigned
\* non-primary plane whose zpos is at least p's holds an intersecting layer
RejectsUnderHigherPlane ==
  \A o \in OutputIds :
    With(apply_unbind(Engine, o), LAMBDA E :
    With(SearchContext(E, Kernel, o), LAMBDA C :
      \A m \in Mappings(C.planes_len, Range(outputs[o].layers)) :
        \A p \in 1..C.planes_len, l \in Range(outputs[o].layers) :
          With(MappingStep(C, E.layers, m, p - 1), LAMBDA step :
            /\ UnderLast(E.layers, step, l)
            /\ \E i \in EarlierOverlays(C, E.layers, m, p, l) :
                 C.planes[i].zpos >= C.planes[p].zpos
            => ~layer_plane_compatible_get(C, E.layers, step, l, C.planes[p]))))

\* C24: for every partial assignment, allocated_plane_under_get is true
\* exactly when an earlier assigned non-primary plane whose zpos is at most
\* p's holds a layer that intersects the candidate, and a candidate layer
\* under the last ZPOS for which it is true is rejected on plane p
RejectsUnderLowerPlane ==
  \A o \in OutputIds :
    With(apply_unbind(Engine, o), LAMBDA E :
    With(SearchContext(E, Kernel, o), LAMBDA C :
      \A m \in Mappings(C.planes_len, Range(outputs[o].layers)) :
        \A p \in 1..C.planes_len, l \in Range(outputs[o].layers) :
          With(MappingStep(C, E.layers, m, p - 1), LAMBDA step :
          With(\E i \in EarlierOverlays(C, E.layers, m, p, l) :
                 C.planes[i].zpos <= C.planes[p].zpos, LAMBDA under :
            /\ allocated_plane_under_get(C, E.layers, step, l) = under
            /\ UnderLast(E.layers, step, l) /\ under
               => ~layer_plane_compatible_get(C, E.layers, step, l, C.planes[p])))))

\* apply left a layer without a plane that the rule kept off the second of
\* two overlays of equal zpos: the first holds an overlapping layer above it
RejectsUnderLowerPlaneWitness ==
  /\ SearchOk(1)
  /\ Len(dev.planes) = 3
  /\ With(apply_unbind(Engine, 1), LAMBDA E :
     With(SearchContext(E, Kernel, 1), LAMBDA C :
       \E l \in Range(outputs[1].layers) :
         /\ layers[l].plane = NULL
         /\ OutputMapping(1)[2] # NULL
         /\ OutputMapping(1)[3] = NULL
         /\ With(MappingStep(C, E.layers, OutputMapping(1), 2), LAMBDA step :
              /\ UnderLast(E.layers, step, l)
              /\ allocated_plane_under_get(C, E.layers, step, l)
              /\ ~allocated_layer_over_get(C, E.layers, step, l)
              /\ ~composited_layer_over_get(C, E.layers, step, l))))

\* P(C, L, m, p, l) for every output, every partial assignment m[1..p-1] of
\* its planes and every layer l of the output
ForEveryCandidate(P(_, _, _, _, _)) ==
  \A o \in OutputIds :
    With(apply_unbind(Engine, o), LAMBDA E :
    With(SearchContext(E, Kernel, o), LAMBDA C :
      \A m \in Mappings(C.planes_len, Range(outputs[o].layers)) :
        \A p \in 1..C.planes_len, l \in Range(outputs[o].layers) :
          P(C, E.layers, m, p, l)))

Compatible(C, L, m, p, l) ==
  layer_plane_compatible_get(C, L, MappingStep(C, L, m, p - 1), l, C.planes[p])

\* a candidate without ZPOS is accepted unless it is already assigned or is
\* the composition layer on a plane that is not primary
NoZposNeverRejected ==
  ForEveryCandidate(LAMBDA C, L, m, p, l :
    /\ ~layer_has_property(L[l], "ZPOS")
    /\ \A i \in 1..(p - 1) : m[i] # l
    /\ ~(l = C.output.comp_layer /\ C.planes[p].type # "PRIMARY")
    => Compatible(C, L, m, p, l))

\* a candidate that is rejected is rejected as well when an assigned layer
\* without ZPOS is taken off its plane
NoZposNeverRejects ==
  ForEveryCandidate(LAMBDA C, L, m, p, l :
    \A i \in 1..(p - 1) :
      /\ m[i] # NULL /\ m[i] # l
      /\ ~layer_has_property(L[m[i]], "ZPOS")
      /\ ~Compatible(C, L, m, p, l)
      => ~Compatible(C, L, [m EXCEPT ![i] = NULL], p, l))

\* C25: a layer without ZPOS is never rejected by the Z-order evaluator
\* (except as composition layer on a non-primary plane or when already
\* assigned), and an assigned layer without ZPOS never causes the rejection
\* of another candidate
NoZposUnconstrained == NoZposNeverRejected /\ NoZposNeverRejects

\* the device is a PRIMARY plane of zpos 0 and an OVERLAY plane of zpos 1,
\* the driver accepts everything, and output o has no composition layer and
\* exactly the two visible layers a and b, which have the same rectangle
\* and distinct ZPOS
TwoOverlapping(o, a, b) ==
  /\ Len(dev.planes) = 2
  /\ dev.planes[1].type = "PRIMARY" /\ dev.planes[1].zpos = 0
  /\ dev.planes[2].type = "OVERLAY" /\ dev.planes[2].zpos = 1
  /\ drv = Driver({}, MaxPlanes, {}, {})
  /\ outputs[o].comp_layer = NULL
  /\ outputs[o].layers \in {<<a, b>>, <<b, a>>}
  /\ a # b
  /\ layer_visible_get(layers[a]) /\ layer_visible_get(layers[b])
  /\ HasZpos(a) /\ HasZpos(b) /\ ZposOf(a) # ZposOf(b)
  /\ layer_rect_get(layers[a]) = layer_rect_get(layers[b])

\* C26: on a primary plane of zpos 0 and an overlay of zpos 1, with a driver
\* that accepts everything and no composition layer, an apply that returned
\* ok has bound the lower of two fully overlapping layers with distinct
\* ZPOS to the primary plane and the higher to the overlay, with score 2
\* when it searched, in both orders of the layers
LowerOnPrimary ==
  \A o \in OutputIds : \A a, b \in LayerIds :
    /\ ApplyOk(o)
    /\ a \in DOMAIN layers /\ b \in DOMAIN layers
    /\ TwoOverlapping(o, a, b)
    /\ ZposOf(a) < ZposOf(b)
    => /\ layers[a].plane = dev.planes[1].id
       /\ layers[b].plane = dev.planes[2].id
       /\ dev.planes[1].layer = a
       /\ dev.planes[2].layer = b
       /\ res.path = "done" => res.best_score = 2

\* the layer created first is the higher one and got the overlay after the
\* search had tried it on the primary plane
LowerOnPrimaryWitness ==
  /\ SearchOk(1)
  /\ DOMAIN layers = {1, 2}
  /\ TwoOverlapping(1, 2, 1)
  /\ outputs[1].layers = <<1, 2>>
  /\ ZposOf(2) < ZposOf(1)
  /\ layers[1].plane = dev.planes[2].id
  /\ layers[2].plane = dev.planes[1].id
  /\ dev.planes[1].id \in Range(layers[1].candidate_planes)

--------------------------------------------------------------------------
(* The request across the search *)

\* the settings of r the caller made itself
CallerPart(r) ==
  [r EXCEPT !.items = SelectSeq(r.items, LAMBDA e : e.obj = CallerObj)]

\* the request r with the layers of the first p planes of mapping m staged
RECURSIVE PrefixReq(_, _, _, _, _)
PrefixReq(C, L, m, p, r) ==
  IF p = 0 THEN r
  ELSE With(PrefixReq(C, L, m, p - 1, r), LAMBDA q :
         IF m[p] = NULL THEN q
         ELSE plane_apply(C.planes[p], <<L[m[p]]>>, C.output.crtc_id, q).req)

\* the search node reached by the first p planes of mapping m, entered with
\* the request r0 of the root and nothing found so far
NodeOf(C, L, m, p, r0) ==
  [res |-> [best |-> [i \in 1..C.planes_len |-> NULL],
            best_score |-> -1,
            req |-> PrefixReq(C, L, m, p, r0),
            layers |-> L,
            test_commit_counter |-> 0,
            ret |-> OK],
   step |-> MappingStep(C, L, m, p)]

\* every node the search can enter, on every caller request: a node that
\* returns 0 returns the request it was entered with
NodesRestoreRequest ==
  \A o \in OutputIds :
    With(apply_unbind(Engine, o), LAMBDA E :
    With(SearchContext(E, Kernel, o), LAMBDA C :
      \A r \in CallerReqs :
        With(apply_disable_loop(E, r, 1).req, LAMBDA r0 :
          \A m \in Mappings(C.planes_len, Range(outputs[o].layers)) :
            \A p \in 0..C.planes_len :
              /\ \A q \in 1..C.planes_len :
                   IF q > p THEN m[q] = NULL
                   ELSE m[q] # NULL => MappingStepOk(C, E.layers, m, q)
              => With(NodeOf(C, E.layers, m, p, r0), LAMBDA n :
                 With(output_layers_choose(C, n.res, n.step), LAMBDA R :
                   R.ret = OK => R.req = n.res.req)))))

\* C27: every search node that returns 0 leaves the request as it was when
\* the node was entered, and after an apply that searched and returned ok
\* the request holds the caller's own settings, then the disabling of the
\* planes that were unbound before the search, then the staging of every
\* plane, and nothing else
RequestRestored ==
  /\ NodesRestoreRequest
  /\ \A o \in OutputIds :
       SearchOk(o) =>
         /\ CallerPart(req) \in CallerReqs
         /\ req = apply_current(
                    Engine,
                    apply_disable_loop(apply_unbind(Engine, o),
                                       CallerPart(req), 1).req).req

\* the caller had two settings in the request, the driver refused the
\* first layer's framebuffer on the primary plane after it was staged
\* there, and the layer got the overlay
RequestRestoredWitness ==
  /\ SearchOk(1)
  /\ Len(CallerPart(req).items) = 2
  /\ <<1, 1>> \in drv.bad
  /\ layers[1].fb_info.fb_id = 1
  /\ 1 \in Range(layers[1].candidate_planes)
  /\ layers[1].plane = 2
  /\ Len(req.items) > Len(CallerPart(req).items)

--------------------------------------------------------------------------
(* Layers the search passes over *)

\* the value of property name of layer l, d when the layer has none
LayerValue(l, name, d) ==
  With(layer_property_get(layers[l], name), LAMBDA v :
    IF v = <<>> THEN d ELSE v[1].value)

\* the IN_FORMATS blob of the kernel plane id lacks the pixel format of
\* framebuffer fb, which was created with modifiers
FormatRejected(id, fb) ==
  /\ hw[id].in_formats # <<>>
  /\ \E i \in 1..Len(hw[id].props) : hw[id].props[i].name = "IN_FORMATS"
  /\ fbs[fb] # <<>>
  /\ fbs[fb][1].flags = 2
  /\ fbs[fb][1].pixel_format \notin Range(hw[id].in_formats[1].formats)

\* C28: after an apply that returned ok every bound layer of the output
\* has an ALPHA other than 0, a framebuffer and no force_comp mark; a
\* search over layers that are all invisible or marked force_comp issues
\* no test commit; and a driver that fails hard only on framebuffers on
\* planes whose IN_FORMATS blob rejects their format never makes an apply
\* fail hard
SkippedNeverBound ==
  /\ \A o \in OutputIds : \A l \in Range(outputs[o].layers) :
       ApplyOk(o) /\ layers[l].plane # NULL
       => /\ LayerValue(l, "ALPHA", ALPHA_OPAQUE) # 0
          /\ LayerValue(l, "FB_ID", 0) # 0
          /\ ~layers[l].force_comp
  /\ \A o \in OutputIds :
       /\ SearchOk(o)
       /\ \A l \in Range(outputs[o].layers) :
            \/ layers[l].force_comp
            \/ LayerValue(l, "ALPHA", ALPHA_OPAQUE) = 0
            \/ LayerValue(l, "FB_ID", 0) = 0
       => dev.test_commit_counter = 0
  /\ (\A pf \in drv.fatal : FormatRejected(pf[1], pf[2]))
     => res.ret # "EACCES"

\* the search staged layer 1, which is marked force_comp, on both planes
\* and passed over it; the driver refused layer 2 with the framebuffer of
\* format 2 on the primary plane, and the search staged it on the overlay,
\* whose blob rejects it and on which the driver would fail hard, and
\* passed over it; the apply returned ok with one test commit
SkippedNeverBoundWitness ==
  /\ SearchOk(1)
  /\ drv.fatal = {<<2, 2>>}
  /\ FormatRejected(2, 2)
  /\ DOMAIN layers = {1, 2}
  /\ layers[1].force_comp
  /\ Range(layers[1].candidate_planes) = {1, 2}
  /\ layers[1].plane = NULL
  /\ LayerValue(2, "FB_ID", 0) = 2
  /\ LayerValue(2, "ALPHA", ALPHA_OPAQUE) = ALPHA_OPAQUE
  /\ Range(layers[2].candidate_planes) = {1, 2}
  /\ layers[2].plane = NULL
  /\ dev.test_commit_counter = 1

--------------------------------------------------------------------------
(* Planes of other outputs *)

\* plane i is bound to a layer of an output other than o
BoundElsewhere(i, o) ==
  /\ dev.planes[i].layer # NULL
  /\ layers[dev.planes[i].layer].output # o

\* the request r disables the plane id
DisablesPlane(r, id) ==
  \E k \in 1..Len(r.items) :
    /\ r.items[k].obj = id
    /\ r.items[k].prop \in {"FB_ID", "CRTC_ID"}
    /\ r.items[k].value = 0

\* C29: an apply on output o, whatever it returns, leaves every plane that
\* is bound to a layer of another output bound to that layer and the layer
\* to that plane, gives the plane no layer of o, and puts no disabling of
\* the plane in the request
OtherOutputsKept ==
  [][\A o \in OutputIds :
       res'.op = "apply" /\ res'.output = o
       => \A i \in 1..Len(dev.planes) :
            BoundElsewhere(i, o)
            => /\ dev'.planes[i].layer = dev.planes[i].layer
               /\ layers'[dev.planes[i].layer].plane = dev.planes[i].id
               /\ layers[dev.planes[i].layer].plane = dev.planes[i].id
               /\ \A l \in Range(outputs[o].layers) :
                    layers'[l].plane # dev.planes[i].id
               /\ ~DisablesPlane(req', dev.planes[i].id)]_vars

\* the last apply on output o found plane i bound to a layer of another
\* output
AppliedBeside(o, i) ==
  /\ res.op = "apply"
  /\ res.output = o
  /\ i \in 1..Len(dev.planes)
  /\ BoundElsewhere(i, o)

\* the second apply of the run, on output 2, failed hard in the search on
\* the overlay while the primary plane was bound to layer 1 of output 1
OtherOutputsKeptWitness ==
  /\ AppliedBeside(2, 1)
  /\ dev.planes[1].layer = 1
  /\ layers[1].plane = dev.planes[1].id
  /\ res.ret = "EACCES"
  /\ res.path = "search"
  /\ dev.page_flip_counter = 2

--------------------------------------------------------------------------
(* The apply after a failed apply *)

\* no layer of output o has a plane and no plane has a layer of o
NothingBoundOn(o) ==
  /\ \A l \in Range(outputs[o].layers) : layers[l].plane = NULL
  /\ \A i \in 1..Len(dev.planes) :
       dev.planes[i].layer # NULL => layers[dev.planes[i].layer].output # o

\* the last call was an apply on output o that returned an error from the
\* disable loop or from the search, after the unbind loop
FailedCleared(o) ==
  /\ res.op = "apply"
  /\ res.output = o
  /\ res.ret # OK
  /\ res.path \in {"disable", "search"}
  /\ NothingBoundOn(o)

\* C30: when the search from the state an apply on output o left behind
\* by failing after the unbind loop finds a mapping that binds a layer, the
\* apply on o that directly follows does not return through the reuse
\* path, and does not return ok with no layer of o bound
FailedApplySearchesAgain ==
  [][\A o \in OutputIds :
       /\ FailedCleared(o)
       /\ res'.op = "apply" /\ res'.output = o
       /\ SearchFrom(Engine, Kernel, o).best_score > 0
       => /\ res'.path # "reuse"
          /\ ~(/\ res'.ret = OK
               /\ \A l \in Range(outputs[o].layers) : layers'[l].plane = NULL)]_vars

--------------------------------------------------------------------------
(* The apply after a change of the planes *)

\* C31: when the search would bind more layers of the output than are
\* bound, the apply that directly follows a liftoff_rpi_plane_create that
\* returned a plane, or a liftoff_rpi_plane_destroy, does not return
\* through the reuse path
PlaneChangeSearches ==
  [][\A o \in OutputIds :
       /\ res.op \in {"plane_create", "plane_destroy"}
       /\ res.ret = OK
       /\ res'.op = "apply" /\ res'.output = o
       /\ SearchFrom(Engine, Kernel, o).best_score > Cardinality(BoundLayers(o))
       => res'.path # "reuse"]_vars

--------------------------------------------------------------------------
(* The configuration an apply leaves staged *)

\* C32: after an apply that returned ok the driver accepts the plane
\* configuration the request stages (the driver answers the same
\* configuration the same way, so a configuration it refuses was accepted
\* by no test commit of that apply)
StagedConfigAccepted ==
  \A o \in OutputIds :
    ApplyOk(o)
    => drmModeAtomicCommit(drv, dev.planes,
                           PlaneConfig(req, dev.planes, outputs, layers)) = OK

--------------------------------------------------------------------------
(* liftoff_rpi_output_needs_composition after an apply *)

\* C33: after an apply that returned ok on an output whose composition
\* layer is visible, liftoff_rpi_output_needs_composition answers true
\* exactly when a visible layer of the output other than the composition
\* layer has no plane
NeedsCompositionIff ==
  \A o \in OutputIds :
    /\ ApplyOk(o)
    /\ outputs[o].comp_layer # NULL
    /\ layer_visible_get(layers[outputs[o].comp_layer])
    => (liftoff_rpi_output_needs_composition(Engine, o)
        <=> \E l \in Range(outputs[o].layers) :
              /\ l # outputs[o].comp_layer
              /\ layer_visible_get(layers[l])
              /\ layers[l].plane = NULL)

--------------------------------------------------------------------------
(* The snapshot of a layer's properties and its changed flag *)

\* the snapshot of every property of the layer equals its value
SnapshotCurrent(layer) ==
  \A i \in 1..Len(layer.props) : layer.props[i].prev_value = layer.props[i].value

\* the snapshots of the properties of a layer, by property
Snapshots(layer) ==
  {<<layer.props[i].index, layer.props[i].prev_value>> : i \in 1..Len(layer.props)}

\* the values the client sets in the states of SpecSkip
SetValues ==
  ({"FB_ID"} \X {0, 1, 2}) \cup ({"ALPHA"} \X {0, 32768, ALPHA_OPAQUE})
    \cup ({"CRTC_X"} \X {0, 1})

\* C34 as claimed: in every state the snapshot of every property of a layer
\* equals its value exactly when the changed flag of the layer is false
SnapshotIffClean ==
  \A l \in DOMAIN layers : SnapshotCurrent(layers[l]) <=> ~layers[l].changed

\* liftoff_rpi_layer_property_set in this state: on a property the layer
\* has it writes the value and leaves every snapshot, and leaves the
\* changed flag unless it takes the force_comp mark off; a property the
\* layer lacks is added with snapshot 0 and the layer is marked changed
SetKeepsSnapshot(l, p, v) ==
  With(liftoff_rpi_layer_property_set(Engine, l, p, v).E.layers[l], LAMBDA n :
    /\ layer_property_get(n, p)[1].value = v
    /\ IF layer_property_get(layers[l], p) # <<>>
       THEN /\ Snapshots(n) = Snapshots(layers[l])
            /\ n.changed = (layers[l].changed \/ (p = "FB_ID" /\ layers[l].force_comp))
       ELSE /\ Snapshots(n) = Snapshots(layers[l]) \cup {<<p, 0>>}
            /\ n.changed)

\* C34 amended: after an apply that searched and returned ok every layer of
\* the output has the changed flag false and every snapshot equal to the
\* value; a property set on a property the layer has leaves snapshots and
\* flag as they are, so that the snapshot of a layer with the flag false
\* can differ from the value; adding a property, unsetting a property the
\* layer has and marking a layer force_comp that was not marked set the flag
SnapshotAfterClean ==
  /\ \A o \in OutputIds : \A l \in Range(outputs[o].layers) :
       SearchOk(o) => ~layers[l].changed /\ SnapshotCurrent(layers[l])
  /\ \A l \in DOMAIN layers :
       /\ \A pv \in SetValues : SetKeepsSnapshot(l, pv[1], pv[2])
       /\ \A i \in 1..Len(layers[l].props) :
            liftoff_rpi_layer_property_unset(
              Engine, l, layers[l].props[i].index).layers[l].changed
       /\ liftoff_rpi_layer_fb_composited_set(Engine, l).layers[l].changed
            = (layers[l].changed \/ ~layers[l].force_comp)

\* after an apply that cleaned layer 1 the client has set its ALPHA, which
\* the layer had, to another value: the flag is false and the snapshot
\* differs
SnapshotAfterCleanWitness ==
  /\ 1 \in DOMAIN layers
  /\ ~layers[1].changed
  /\ dev.page_flip_counter = 1
  /\ layer_property_get(layers[1], "ALPHA") # <<>>
  /\ layer_property_get(layers[1], "ALPHA")[1].prev_value = ALPHA_OPAQUE
  /\ layer_property_get(layers[1], "ALPHA")[1].value = 32768

--------------------------------------------------------------------------
(* The record of a search *)

\* what the search of an apply on output o with request r does, started
\* from engine E on kernel K
SearchLog(E, K, o, r) ==
  With(layers_fb_info_update(layers_priority_update(E), K, o), LAMBDA E1 :
  With(log_no_reuse(E1, o), LAMBDA E2 :
  With(apply_unbind(
         [E2 EXCEPT
            !.dev.test_commit_counter = 0,
            !.layers = [l \in DOMAIN E2.layers |->
                          IF l \in Range(E2.outputs[o].layers)
                          THEN layer_candidate_planes_reset(E2.layers[l])
                          ELSE E2.layers[l]]], o), LAMBDA E4 :
  With(SearchContext(E4, K, o), LAMBDA C :
    output_layers_choose_log(
      C,
      [best |-> [i \in 1..C.planes_len |-> NULL],
       best_score |-> -1,
       req |-> apply_disable_loop(E4, r, 1).req,
       layers |-> E4.layers,
       test_commit_counter |-> E4.dev.test_commit_counter,
       ret |-> OK,
       log |-> <<>>],
      FirstStep)))))

\* the events of kind k in a record
Events(log, k) == SelectSeq(log, LAMBDA e : e[1] = k)

\* the planes on which the record has a staging of layer l
StagedPlanes(log, l) ==
  {log[k][3] : k \in {j \in 1..Len(log) : log[j][1] = "stage" /\ log[j][2] = l}}

\* the plane ids in the memo of a layer
Memo(layer) == Range(layer.candidate_planes) \ {0}

\* C35: an apply on output o that did not reuse leaves in the memo of every
\* layer of o exactly the planes on which the search staged the layer
\* (none when the apply failed in the disable loop), an apply that reused
\* leaves every memo as it was, and after an apply that returned ok the
\* plane of every bound layer of the output is in the layer's memo
CandidateMemo ==
  /\ [](\A o \in OutputIds : \A l \in Range(outputs[o].layers) :
          ApplyOk(o) /\ layers[l].plane # NULL
          => layers[l].plane \in Memo(layers[l]))
  /\ [][\A o \in OutputIds :
          res'.op = "apply" /\ res'.output = o
          => IF res'.path = "reuse"
             THEN \A l \in DOMAIN layers :
                    layers'[l].candidate_planes = layers[l].candidate_planes
             ELSE IF res'.path = "disable"
             THEN \A l \in Range(outputs[o].layers) : Memo(layers'[l]) = {}
             ELSE With(SearchLog(Engine, Kernel, o, EmptyReq).log, LAMBDA log :
                    \A l \in Range(outputs[o].layers) :
                      Memo(layers'[l]) = StagedPlanes(log, l))]_vars

\* the second apply of the run searched: layer 1, which the first apply had
\* staged on both planes, is invisible now and has an empty memo, and layer
\* 2, marked force_comp, was staged on both planes and has no plane
CandidateMemoWitness ==
  /\ SearchOk(1)
  /\ dev.page_flip_counter = 2
  /\ DOMAIN layers = {1, 2}
  /\ LayerValue(1, "ALPHA", ALPHA_OPAQUE) = 0
  /\ Memo(layers[1]) = {}
  /\ layers[2].force_comp
  /\ Memo(layers[2]) = {1, 2}
  /\ layers[2].plane = NULL

(* ------------------------------------------------------------------ *)
(* C36: number of leaves and depth of one search                       *)
(* ------------------------------------------------------------------ *)

\* the base cases and the calls of the search an apply of output o would run
LogOf(o) == SearchLog(Engine, Kernel, o, EmptyReq).log

\* number of assignments of distinct layers, out of l, to a subset of p planes
RECURSIVE PartialInjections(_, _)
PartialInjections(p, l) ==
  IF p = 0 \/ l = 0 THEN 1
  ELSE PartialInjections(p - 1, l) + l * PartialInjections(p - 1, l - 1)

\* a mapping gives no layer to two planes
InjectiveAlloc(alloc) ==
  \A i, j \in 1..Len(alloc) :
    alloc[i] # 0 /\ alloc[i] = alloc[j] => i = j

\* C36 as stated: at most planes_len * layers_len base cases in one search
\* and a recursion depth of at most planes_len
LeavesWithinProduct ==
  \A o \in OutputIds :
    With(LogOf(o), LAMBDA log :
      /\ Len(Events(log, "leaf")) <= Len(dev.planes) * Len(outputs[o].layers)
      /\ \A k \in 1..Len(log) :
           log[k][1] = "enter" => log[k][2] <= Len(dev.planes))

\* C36 amended: the base case is reached at most once per assignment of
\* distinct layers to a subset of the planes, so the number of base cases is
\* bounded by the number of such assignments, and the recursion depth never
\* exceeds planes_len
LeavesWithinMappings ==
  \A o \in OutputIds :
    With(LogOf(o), LAMBDA log :
      /\ With(Events(log, "leaf"), LAMBDA lv :
           /\ \A a, b \in 1..Len(lv) : lv[a][3] = lv[b][3] => a = b
           /\ \A a \in 1..Len(lv) : InjectiveAlloc(lv[a][3])
           /\ Len(lv) <= PartialInjections(Len(dev.planes),
                                           Len(outputs[o].layers)))
      /\ \A k \in 1..Len(log) :
           log[k][1] = "enter" => log[k][2] <= Len(dev.planes))

\* an apply has searched, and the search of an output with several planes
\* and layers reaches the base case several times at depth planes_len
LeavesWithinMappingsWitness ==
  /\ res.op = "apply" /\ res.path = "done"
  /\ \E o \in OutputIds :
       /\ Len(dev.planes) >= 2 /\ Len(outputs[o].layers) >= 2
       /\ With(LogOf(o), LAMBDA log :
            /\ Len(Events(log, "leaf")) >= 3
            /\ \E k \in 1..Len(log) :
                 log[k][1] = "enter" /\ log[k][2] = Len(dev.planes))

(* ------------------------------------------------------------------ *)
(* C37: the retry loop of device_test_commit                           *)
(* ------------------------------------------------------------------ *)

Interrupts == {"EINTR", "EAGAIN"}

\* the answers a test commit can end with
FinalAnswers == {OK, "EINVAL", "ERANGE", "ENOSPC", "EACCES"}

\* C37: device_test_commit on the current request returns the first answer
\* of the kernel that is neither EINTR nor EAGAIN, whatever that answer is,
\* and counts one test commit; in the search an apply would run, every test
\* commit returns such an answer and test_commit_counter is raised by the
\* number of calls, not of attempts
TestCommitRetries ==
  /\ With(device_test_commit(drv, dev.test_commit_counter, req, dev.planes,
                             outputs, layers), LAMBDA tc :
       /\ tc.ret \notin Interrupts
       /\ tc.ret = drmModeAtomicCommit(
                     drv, dev.planes,
                     PlaneConfig(req, dev.planes, outputs, layers))
       /\ tc.test_commit_counter = dev.test_commit_counter + 1)
  /\ \A a \in FinalAnswers : test_commit_retry(Append(drv.intr, a), 1) = a
  /\ \A o \in OutputIds :
       With(SearchLog(Engine, Kernel, o, EmptyReq), LAMBDA R :
         With(Events(R.log, "test"), LAMBDA tests :
           /\ \A k \in 1..Len(tests) : tests[k][4] \notin Interrupts
           /\ R.test_commit_counter = Len(tests)))
  /\ res.op = "apply" => res.ret \notin Interrupts

\* an apply on a kernel that answers EINTR, then EAGAIN, then the verdict
\* has run several test commits, one of them refused, and returned ok
TestCommitRetriesWitness ==
  /\ Len(drv.intr) = 2
  /\ res.op = "apply" /\ res.path = "done" /\ res.ret = OK
  /\ dev.test_commit_counter >= 2
  /\ \E o \in OutputIds :
       With(Events(SearchLog(Engine, Kernel, o, EmptyReq).log, "test"),
            LAMBDA tests :
              /\ \E k \in 1..Len(tests) : tests[k][4] = "ENOSPC"
              /\ \E k \in 1..Len(tests) : tests[k][4] = OK)

(* ------------------------------------------------------------------ *)
(* C38: the page-flip counter and the priorities                       *)
(* ------------------------------------------------------------------ *)

\* 1 when the layer's FB_ID differs from its snapshot, else 0
NewFrame(layer) ==
  With(layer_property_get(layer, "FB_ID"), LAMBDA fb :
    IF fb # <<>> /\ fb[1].prev_value # fb[1].value THEN 1 ELSE 0)

\* C38: the page-flip counter stays in 0..59; every apply, on whichever
\* output and with whatever result, raises it by one, the 60th sets it to 0;
\* the apply adds one to the pending priority of exactly the layers whose
\* FB_ID differs from its snapshot, and the 60th apply moves the pending
\* priority of every layer to its current priority and sets the pending one
\* to 0
PriorityPeriod ==
  /\ [](dev.page_flip_counter \in 0..(LIFTOFF_RPI_PRIORITY_PERIOD - 1))
  /\ [][res'.op = "apply" =>
          /\ dev'.page_flip_counter =
               (dev.page_flip_counter + 1) % LIFTOFF_RPI_PRIORITY_PERIOD
          /\ \A l \in DOMAIN layers :
               IF dev.page_flip_counter + 1 = LIFTOFF_RPI_PRIORITY_PERIOD
               THEN /\ layers'[l].current_priority =
                         layers[l].pending_priority + NewFrame(layers[l])
                    /\ layers'[l].pending_priority = 0
               ELSE /\ layers'[l].pending_priority =
                         layers[l].pending_priority + NewFrame(layers[l])
                    /\ layers'[l].current_priority = layers[l].current_priority
       ]_vars

\* the 60th apply has returned: a layer of the other output has taken over
\* a pending priority of several frames and another layer one of fewer frames
PriorityPeriodWitness ==
  /\ res.op = "apply" /\ dev.page_flip_counter = 0
  /\ \E l, k \in DOMAIN layers :
       /\ layers[l].output # res.output
       /\ layers[l].current_priority >= 2 /\ layers[l].pending_priority = 0
       /\ layers[k].current_priority < layers[l].current_priority
       /\ layers[k].pending_priority = 0

(* ------------------------------------------------------------------ *)
(* C39: the format pre-filter                                          *)
(* ------------------------------------------------------------------ *)

\* the blob lists the pair: some entry of the modifier has the index of the
\* format inside its window of 64 formats, with the bit of the format set
BlobLists(set, pixel_format, modifier) ==
  \E f \in 1..Len(set.formats) : \E m \in 1..Len(set.modifiers) :
    /\ set.formats[f] = pixel_format
    /\ set.modifiers[m].modifier = modifier
    /\ f - 1 >= set.modifiers[m].offset
    /\ f - 1 < set.modifiers[m].offset + 64
    /\ BitSet(set.modifiers[m].formats, f - 1 - set.modifiers[m].offset)

\* C39: plane_check_layer_fb is true for a layer without framebuffer, for a
\* framebuffer without DRM_MODE_FB_MODIFIERS and for a plane without blob,
\* and it is false only for a (pixel_format, modifier) pair that no entry of
\* the plane's IN_FORMATS blob lists
FormatFilterSound ==
  \A i \in 1..Len(dev.planes) : \A l \in DOMAIN layers :
    With(dev.planes[i], LAMBDA plane : With(layers[l], LAMBDA layer :
      /\ \/ layer.fb_info.fb_id = 0
         \/ ~BitSet(layer.fb_info.flags, 1)
         \/ plane.in_formats_blob = <<>>
         => plane_check_layer_fb(plane, layer)
      /\ ~plane_check_layer_fb(plane, layer) =>
           ~BlobLists(plane.in_formats_blob[1], layer.fb_info.pixel_format,
                      layer.fb_info.modifier)))

(* ------------------------------------------------------------------ *)
(* C40: the order of the search                                        *)
(* ------------------------------------------------------------------ *)

\* the rank of a choice for one plane: the position of the layer in the
\* output's list, the skip branch after every layer
Rank(o, l) ==
  IF l = NULL THEN Len(outputs[o].layers) + 1
  ELSE CHOOSE i \in 1..Len(outputs[o].layers) : outputs[o].layers[i] = l

\* mapping a comes before mapping b in the depth-first order: planes in the
\* device's order, for each plane the layers in the output's order, then skip
Before(o, a, b) ==
  \E i \in 1..Len(a) :
    /\ \A j \in 1..(i - 1) : a[j] = b[j]
    /\ Rank(o, a[i]) < Rank(o, b[i])

\* the first of the valid leaves with the highest score
FirstBest(lv) ==
  With({k \in 1..Len(lv) : lv[k][4]}, LAMBDA valid :
    IF valid = {} THEN 0
    ELSE CHOOSE k \in valid :
           /\ \A j \in valid : lv[j][2] <= lv[k][2]
           /\ \A j \in valid : lv[j][2] = lv[k][2] => k <= j)

\* C40: the layers of an output are in the order of their creation; the
\* search reaches its leaves in the depth-first order of planes, layers and
\* skip; an apply that searched and returned ok has installed the first of
\* the valid leaves with the highest score (nothing when no leaf is valid),
\* after as many test commits as the search of the state before the apply
\* issues
OrderStable ==
  /\ [](\A o \in OutputIds :
          /\ \A i, j \in 1..Len(outputs[o].layers) :
               i < j => outputs[o].layers[i] < outputs[o].layers[j]
          /\ With(Events(LogOf(o), "leaf"), LAMBDA lv :
               \A k \in 1..(Len(lv) - 1) : Before(o, lv[k][3], lv[k + 1][3])))
  /\ [][res'.op = "apply" /\ res'.path = "done" =>
          With(SearchLog(Engine, Kernel, res'.output, EmptyReq), LAMBDA R :
          With(Events(R.log, "leaf"), LAMBDA lv :
          With(FirstBest(lv), LAMBDA k :
            /\ res'.best_score = IF k = 0 THEN -1 ELSE lv[k][2]
            /\ dev'.test_commit_counter = Len(Events(R.log, "test"))
            /\ \A i \in 1..Len(dev.planes) :
                 IF k # 0 /\ lv[k][3][i] # NULL
                 THEN dev'.planes[i].layer = lv[k][3][i]
                 ELSE dev'.planes[i].layer \notin
                        Range(outputs[res'.output].layers))))
       ]_vars

\* an apply has installed a mapping that the search found before another
\* valid mapping of the same score
OrderStableWitness ==
  /\ res.op = "apply" /\ res.path = "done" /\ res.best_score >= 1
  /\ With(Events(LogOf(res.output), "leaf"), LAMBDA lv :
       \E a, b \in 1..Len(lv) :
         /\ a < b /\ lv[a][4] /\ lv[b][4]
         /\ lv[a][2] = res.best_score /\ lv[b][2] = res.best_score
         /\ \A i \in 1..Len(dev.planes) :
              lv[a][3][i] # NULL => dev.planes[i].layer = lv[a][3][i])

==========================================================================
